---- MODULE Spec2Model ----
(***************************************************************************)
(* Passkey smart-account send pipeline (MoeMixMC/sendme).                  *)
(*                                                                         *)
(* Part I   the receipt poll of the relay client (waitForUserOperation),   *)
(*          with elapsed time, specification SpecWait / SpecWaitFair.      *)
(* Part II  the send pipeline: the send hook, the prepareUserOp,           *)
(*          submitUserOp and waitForUserOp procedures, the relay, the      *)
(*          chain and the database, specification Spec.                    *)
(***************************************************************************)
EXTENDS Integers, Sequences, FiniteSets, TLC

VARIABLES
    \* ---- waitForUserOperation (bundler client) ----
    wPc,          \* position in the loop: "check" | "polling" | "sleeping" | "returned" | "timeout" | "error"
    wTimeout,     \* the timeout argument (ms)
    wElapsed,     \* Date.now() - startTime (ms)
    wResult,      \* value returned / thrown by waitForUserOperation
    wPolls,       \* getUserOperationReceipt calls issued so far
    wSleeps,      \* interval waits completed so far
    wFirst,       \* first non-absent receipt a poll observed (Absent if none)
    wFirstLat,    \* duration of the first getUserOperationReceipt call (-1 before it returns)
    wLateStart,   \* TRUE iff some poll was started with elapsed >= timeout
    \* ---- send pipeline ----
    state,        \* the hook's SendState (useState)
    pc,           \* [attempt -> position of that send() call]
    prepared,     \* [attempt -> userOp of the prepareUserOp response (numbers as strings)]
    prepInfo,     \* [attempt -> what prepareUserOp read and built: code seen, defaults, estimation]
    signedOp,     \* [attempt -> the UserOperation the client built and signed]
    passkey,      \* [attempt -> how the passkey prompt of that attempt ended]
    signature,    \* [attempt -> result of signUserOp]
    bundlerOp,    \* [attempt -> the UserOperationV07 submitUserOp sent to the relay]
    submitCalls,  \* [attempt -> number of trpc.submitUserOp calls made]
    hashOf,       \* [attempt -> userOpHash returned by submitUserOp]
    ended,        \* [attempt -> how the send() call ended: final state set, and its cause]
    faults,       \* [attempt -> the chain reads / relay calls of that attempt that failed]
    chainCode,    \* the sender's account has code on chain
    chainNonce,   \* EntryPoint nonce of the sender (key 0)
    mempool,      \* operations the relay accepted
    userOps,      \* db: user_ops rows by user_op_hash
    deployed,     \* db: smart_accounts.deployed of the sender
    markedBy,     \* attempts whose submitUserOp called markAccountDeployed
    \* ---- one call of a pure function (formatting, hashing, codecs) ----
    cPc,          \* "idle": no call; "ready": arguments chosen; "done": returned or threw
    cIn,          \* [fn, arg]: the function called and its argument
    cOut,         \* the value returned, or the error thrown
    \* ---- useUserSearch ----
    query,        \* the hook's query (useState)
    results,      \* the hook's results (useState): NoResults, or the results of one query
    isSearching,  \* the hook's isSearching (useState)
    debounceRef,  \* the pending debounce timer and the query it will search, or NoTimer
    searches,     \* searchSmartAccounts requests awaiting their response
    issued,       \* the queries sent to the backend so far, in order
    searchMounted,\* isMounted.current of useUserSearch
    searchCalls,  \* search() and clear() calls made so far
    \* ---- useBalance ----
    bAddress,     \* the address prop of the current render
    balance,      \* the hook's balance (useState)
    isLoading,    \* the hook's isLoading (useState)
    balanceError, \* the hook's error (useState)
    isMounted,    \* isMounted.current of useBalance
    intervals,    \* the setInterval timers that are active, each with the address of its closure
    fetches,      \* getBalance requests awaiting their response
    fetchCount,   \* fetchBalance calls that sent a request so far
    addressChanges, \* re-renders with another address so far
    unmounted     \* the component was unmounted

waitVars == <<wPc, wTimeout, wElapsed, wResult, wPolls, wSleeps, wFirst, wFirstLat, wLateStart>>

sendVars == <<state, pc, prepared, prepInfo, signedOp, passkey, signature, bundlerOp, submitCalls,
              hashOf, ended, faults, chainCode, chainNonce, mempool, userOps, deployed, markedBy>>

codecVars == <<cPc, cIn, cOut>>

searchVars == <<query, results, isSearching, debounceRef, searches, issued, searchMounted,
                searchCalls>>

balanceVars == <<bAddress, balance, isLoading, balanceError, isMounted, intervals, fetches,
                 fetchCount, addressChanges, unmounted>>

uiVars == <<searchVars, balanceVars>>

vars == <<waitVars, sendVars, codecVars, uiVars>>

-----------------------------------------------------------------------------
(* Bounds of the model *)

\* longest duration of one relay call, in units of 1000 ms
MaxLatencyTicks == 5

(* Program constants *)

\* waitForUserOperation: timeout: number = 60000
DefaultTimeoutMs == 60000
\* setTimeout(resolve, 2000)
PollIntervalMs == 2000

\* durations one relay call can take (the fetch has no timeout of its own)
Latencies == { k * 1000 : k \in 0..MaxLatencyTicks }

\* timeouts the loop is started with: the default and the 6 s test budget
WaitTimeouts == { 6000, DefaultTimeoutMs }

\* eth_getUserOperationReceipt result null: the operation is not included yet
Absent == [kind |-> "absent"]

\* receipts the relay can produce (UserOpReceipt: success flag + bundle tx hash)
Receipts == { [kind |-> "receipt", success |-> ok, transactionHash |-> "0xtx"] : ok \in BOOLEAN }

-----------------------------------------------------------------------------
(* Part II: values and conversions *)

\* concurrent send() calls modelled
MaxAttempts == 2

Attempts == 1..MaxAttempts

\* baseSepolia.id
ChainId == 84532

ENTRY_POINT_ADDRESS == "0x0000000071727De22E5E9d8BAf0edAc6f37da032"
FACTORY_ADDRESS == "0x6391426be3228106f8576550D25b54bcB1306f30"
zeroAddress == "0x0000000000000000000000000000000000000000"

\* the hook's senderAddress and credentialId, the sender's signing key
Sender == "0xsender"
CredentialId == "cred-1"
PublicKeyX == "0xkeyx"
PublicKeyY == "0xkeyy"

\* JS null in an address / string field, in a bigint field, in a bytes field,
\* and null or undefined where a numeric string is expected
Null == "null"
NullInt == -1
NullBytes == <<[fn |-> "null"]>>
NullNum == [base |-> 0, digits |-> <<>>]

\* null where a transaction hash may stand
NullHash == <<>>

\* the empty byte string "0x"
EmptyBytes == <<>>

\* digits of n in base b, most significant first
RECURSIVE Digits(_, _)
Digits(n, b) == IF n < b THEN <<n>> ELSE Append(Digits(n \div b, b), n % b)

RECURSIVE DigitsValue(_, _)
DigitsValue(ds, b) ==
    IF ds = <<>> THEN 0
    ELSE DigitsValue(SubSeq(ds, 1, Len(ds) - 1), b) * b + ds[Len(ds)]

\* bigint.toString(): decimal numeric string
toString(n) == [base |-> 10, digits |-> Digits(n, 10)]

\* viem toHex(bigint): "0x" + hexadecimal digits
\* (toHexDecimalDigits: the digits written in base 10 instead)
toHexDecimalDigits(n) == [base |-> 16, digits |-> Digits(n, 10)]
toHex(n) == [base |-> 16, digits |-> Digits(n, 16)]

\* BigInt(x) throws for null / undefined and for a string that is no number
BigIntThrows(str) ==
    \/ str.base \notin {10, 16}
    \/ str.digits = <<>>
    \/ \E i \in 1..Len(str.digits) : str.digits[i] >= str.base

\* BigInt("123") / BigInt("0x7b")
BigInt(str) == DigitsValue(str.digits, str.base)

\* a "0x.." field of a relay answer that is no hexadecimal number
Unparsable == [base |-> 16, digits |-> <<16>>]

\* x || "0x" on a bytes field
OrEmptyBytes(bytes) == IF bytes = NullBytes THEN EmptyBytes ELSE bytes

\* x || 0n on a bigint field
OrZero(n) == IF n = NullInt THEN 0 ELSE n

\* keccak256, taken collision free
keccak256(x) == <<"keccak256", x>>

\* pad(toHex(v), { size: 16 })
\* (pad16LastDigit: a padding that keeps only the last hexadecimal digit)
pad16LastDigit(v) == [size |-> 16, value |-> BigInt(toHex(v)) % 16]
pad16(v) == [size |-> 16, value |-> BigInt(toHex(v))]

-----------------------------------------------------------------------------
(* userOp.ts: building, hashing and signing a UserOperation *)

\* parseEther(value), kept symbolic
parseEther(value) == <<"wei", value>>

\* encodeFunctionData(executeBatch, [[{ dest: to, value, data: "0x" }]])
buildTransferCallData(to, value) == <<"executeBatch", <<[dest |-> to, value |-> value, data |-> EmptyBytes]>> >>

\* concat([FACTORY_ADDRESS, encodeFunctionData(createAccount, [...])])
\* (buildInitCodeSaltOne: createAccount called with another salt than getAddress)
buildInitCodeSaltOne(publicKeyX, publicKeyY) ==
    << FACTORY_ADDRESS,
       [fn |-> "createAccount", homeChain |-> ChainId, homeCoin |-> zeroAddress,
        swapper |-> zeroAddress, bridger |-> zeroAddress, keySlot |-> 0,
        key |-> <<publicKeyX, publicKeyY>>, salt |-> 1] >>
buildInitCode(publicKeyX, publicKeyY) ==
    << FACTORY_ADDRESS,
       [fn |-> "createAccount", homeChain |-> ChainId, homeCoin |-> zeroAddress,
        swapper |-> zeroAddress, bridger |-> zeroAddress, keySlot |-> 0,
        key |-> <<publicKeyX, publicKeyY>>, salt |-> 0] >>

\* packUserOpForHash(userOp): the eight ABI-encoded words
\* (packUserOpForHashWithSignature: a packing that also takes in the signature)
packUserOpForHashWithSignature(userOp) ==
    <<userOp.sender, userOp.nonce, keccak256(userOp.callData), keccak256(userOp.signature)>>
packUserOpForHash(userOp) ==
    LET initCode == IF userOp.factory # Null
                       THEN <<userOp.factory>> \o OrEmptyBytes(userOp.factoryData)
                       ELSE EmptyBytes
        accountGasLimits == <<pad16(userOp.verificationGasLimit), pad16(userOp.callGasLimit)>>
        gasFees == <<pad16(userOp.maxPriorityFeePerGas), pad16(userOp.maxFeePerGas)>>
        paymasterAndData ==
            IF userOp.paymaster # Null
               THEN <<userOp.paymaster,
                      pad16(OrZero(userOp.paymasterVerificationGasLimit)),
                      pad16(OrZero(userOp.paymasterPostOpGasLimit))>>
                    \o OrEmptyBytes(userOp.paymasterData)
               ELSE EmptyBytes
    IN  << userOp.sender, userOp.nonce, keccak256(initCode), keccak256(userOp.callData),
           accountGasLimits, userOp.preVerificationGas, gasFees, keccak256(paymasterAndData) >>

getUserOpHash(userOp) ==
    keccak256(<<keccak256(packUserOpForHash(userOp)), ENTRY_POINT_ADDRESS, ChainId>>)

\* const validUntil = 0n: no expiration
validUntil == 0

\* n >> (8 * i)
RECURSIVE ShiftRight8(_, _)
ShiftRight8(n, i) == IF i = 0 THEN n ELSE ShiftRight8(n \div 256, i - 1)

\* validUntilBytes[5 - i] = Number((validUntil >> BigInt(i * 8)) & 0xffn), i = 5..0
validUntilBytes == [k \in 1..6 |-> ShiftRight8(validUntil, 6 - k) % 256]

\* hexToBytes(hash): the 32 bytes of a keccak256 output
hexToBytes(hash) == [i \in 1..32 |-> [byte |-> i, of |-> hash]]

\* challenge = new Uint8Array(38); set(validUntilBytes, 0); set(hashBytes, 6)
\* (ChallengeHashOnly: the hash alone, without the validUntil prefix)
ChallengeHashOnly(userOp) == hexToBytes(getUserOpHash(userOp))
Challenge(userOp) == validUntilBytes \o hexToBytes(getUserOpHash(userOp))

\* what the passkey hands back for a challenge (signWithPasskey's return value)
PasskeySignature(challenge) ==
    [authenticatorData |-> "authenticatorData",
     clientDataJSON |-> [type |-> "webauthn.get", challenge |-> challenge],
     r |-> "r", s |-> "s"]

\* encodeAbiParameters("uint8, bytes, string, uint256, uint256", [keySlot, ...])
SignatureStruct(sig, keySlot) ==
    [abi |-> <<"uint8", "bytes", "string", "uint256", "uint256">>,
     values |-> <<keySlot, sig.authenticatorData, sig.clientDataJSON, sig.r, sig.s>>]

\* concat([bytesToHex(validUntilBytes), signatureStruct])
FinalSignature(sig, keySlot) == validUntilBytes \o <<SignatureStruct(sig, keySlot)>>

\* the operation hash a final signature binds (read back from clientDataJSON)
SignedHash(sig) == sig[Len(sig)].values[3].challenge[Len(sig[Len(sig)].values[3].challenge)].of

-----------------------------------------------------------------------------
(* errors and call results *)

Ok(v) == [threw |-> FALSE, value |-> v]
Threw(e) == [threw |-> TRUE, error |-> e]

\* new Error(message); cause records what actually happened and is not visible to the code
Err(message, cause) == [kind |-> "error", message |-> message, cause |-> cause]

\* what waitForUserOperation throws when the loop runs out
TimeoutError == Err(<<"Timeout waiting for UserOperation receipt">>, "timeout")

\* what fetch throws when the network fails
FetchError == Err(<<"fetch failed">>, "network")

\* rpcCall: throw new Error(`Bundler error: ${json.error.message}${details}`)
BundlerError(message) == Err(<<"Bundler error: ", message>>, "relay")

\* answers a JSON-RPC endpoint can give to one request with result r
RpcFail == [kind |-> "fail"]
RpcError(message) == [kind |-> "error", message |-> message]
RpcResult(r) == [kind |-> "result", result |-> r]

\* rpcCall<T>(method, params): the bundler's answer, or the error thrown
rpcCall(response) ==
    CASE response.kind = "fail" -> Threw(FetchError)
      [] response.kind = "error" -> Threw(BundlerError(response.message))
      [] OTHER -> Ok(response.result)

\* getAccountNonce: throws on json.error, otherwise BigInt(json.result || "0x0")
getAccountNonce(response) ==
    CASE response.kind = "fail" -> Threw(FetchError)
      [] response.kind = "error" ->
            Threw(Err(<<"Failed to get nonce: ", response.message>>, "chain"))
      [] response.kind = "empty" -> Ok(BigInt(toHex(0)))
      [] OTHER -> Ok(BigInt(response.result))

-----------------------------------------------------------------------------
(* router.ts: prepareUserOp *)

\* a complete estimate answer (values that differ from every default)
GoodEstimate ==
    [callGasLimit |-> toHex(80000),
     verificationGasLimit |-> toHex(300000),
     preVerificationGas |-> toHex(50000)]

\* estimate answers with one field missing (undefined) or no number
BadEstimates ==
    { [GoodEstimate EXCEPT ![f] = bad] :
        f \in {"callGasLimit", "verificationGasLimit", "preVerificationGas"},
        bad \in {NullNum, Unparsable} }

\* pimlico_getUserOperationGasPrice: the "fast" quote
GasPriceQuotes ==
    { [maxFeePerGas |-> toHex(1500000), maxPriorityFeePerGas |-> toHex(1000000)] }

\* the userOp literal prepareUserOp builds before estimation
\* (BuildUserOpNoDeployBump: the literal with verificationGasLimit 150000 whether or not the deployment is bundled)
BuildUserOpNoDeployBump(sender, nonce, isDeployed, callData, fast) ==
    [sender |-> sender, nonce |-> nonce,
     factory |-> IF ~isDeployed THEN FACTORY_ADDRESS ELSE Null,
     factoryData |-> IF ~isDeployed THEN Tail(buildInitCode(PublicKeyX, PublicKeyY)) ELSE NullBytes,
     callData |-> callData,
     callGasLimit |-> 200000,
     verificationGasLimit |-> 150000,
     preVerificationGas |-> 100000,
     maxFeePerGas |-> BigInt(fast.maxFeePerGas),
     maxPriorityFeePerGas |-> BigInt(fast.maxPriorityFeePerGas),
     paymaster |-> Null, paymasterVerificationGasLimit |-> NullInt,
     paymasterPostOpGasLimit |-> NullInt, paymasterData |-> NullBytes,
     signature |-> EmptyBytes]
BuildUserOp(sender, nonce, isDeployed, callData, fast) ==
    [sender |-> sender, nonce |-> nonce,
     factory |-> IF ~isDeployed THEN FACTORY_ADDRESS ELSE Null,
     factoryData |-> IF ~isDeployed THEN Tail(buildInitCode(PublicKeyX, PublicKeyY)) ELSE NullBytes,
     callData |-> callData,
     callGasLimit |-> 200000,
     verificationGasLimit |-> IF isDeployed THEN 150000 ELSE 600000,
     preVerificationGas |-> 100000,
     maxFeePerGas |-> BigInt(fast.maxFeePerGas),
     maxPriorityFeePerGas |-> BigInt(fast.maxPriorityFeePerGas),
     paymaster |-> Null, paymasterVerificationGasLimit |-> NullInt,
     paymasterPostOpGasLimit |-> NullInt, paymasterData |-> NullBytes,
     signature |-> EmptyBytes]

\* the try block: three assignments in order, any throw leaves the rest undone
ApplyEstimate(userOp, est) ==
    IF est.threw THEN userOp
    ELSE LET e == est.value
             u1 == [userOp EXCEPT !.callGasLimit = BigInt(e.callGasLimit)]
             u2 == [u1 EXCEPT !.verificationGasLimit = BigInt(e.verificationGasLimit)]
             u3 == [u2 EXCEPT !.preVerificationGas = BigInt(e.preVerificationGas)]
         IN  IF BigIntThrows(e.callGasLimit) THEN userOp
             ELSE IF BigIntThrows(e.verificationGasLimit) THEN u1
             ELSE IF BigIntThrows(e.preVerificationGas) THEN u2
             ELSE u3

\* estimation failed: the call threw, or a field of the answer did not convert
EstimateFailed(est) ==
    \/ est.threw
    \/ BigIntThrows(est.value.callGasLimit)
    \/ BigIntThrows(est.value.verificationGasLimit)
    \/ BigIntThrows(est.value.preVerificationGas)

\* x?.toString() || null on a nullable bigint
ToStringOrNull(n) == IF n = NullInt THEN NullNum ELSE toString(n)

\* the userOp of the response: bigints as strings
PreparedUserOp(userOp) ==
    [sender |-> userOp.sender,
     nonce |-> toString(userOp.nonce),
     factory |-> userOp.factory,
     factoryData |-> userOp.factoryData,
     callData |-> userOp.callData,
     callGasLimit |-> toString(userOp.callGasLimit),
     verificationGasLimit |-> toString(userOp.verificationGasLimit),
     preVerificationGas |-> toString(userOp.preVerificationGas),
     maxFeePerGas |-> toString(userOp.maxFeePerGas),
     maxPriorityFeePerGas |-> toString(userOp.maxPriorityFeePerGas),
     paymaster |-> userOp.paymaster,
     paymasterVerificationGasLimit |-> ToStringOrNull(userOp.paymasterVerificationGasLimit),
     paymasterPostOpGasLimit |-> ToStringOrNull(userOp.paymasterPostOpGasLimit),
     paymasterData |-> userOp.paymasterData]

\* what the environment answers to the reads of one prepareUserOp call
\* code: publicClient.getCode; nonce: eth_call getNonce; gas: gas price; est: estimate
PrepareEnvs ==
    [ account : {"ok", "no_account", "no_key"},
      code    : {"ok", "fail"},
      nonce   : {"ok", "empty", "error", "fail"},
      gas     : {RpcResult(q) : q \in GasPriceQuotes} \cup {RpcError("rate limited"), RpcFail},
      est     : {RpcResult(e) : e \in {GoodEstimate} \cup BadEstimates}
                  \cup {RpcError("simulation failed"), RpcFail} ]

\* the eth_call answer for getNonce(sender, 0): 32-byte word, leading zeros
NonceResponse(kind, nonce) ==
    CASE kind = "ok" -> [kind |-> "result", result |-> [base |-> 16, digits |-> <<0, 0>> \o Digits(nonce, 16)]]
      [] kind = "empty" -> [kind |-> "empty"]
      [] kind = "error" -> [kind |-> "error", message |-> "execution reverted"]
      [] OTHER -> RpcFail

\* prepareUserOp({ sender, to, value }) against chain state (code, nonce) and env
prepareUserOp(to, value, code, nonce, env) ==
    LET isDeployed == code
        nonceRead == getAccountNonce(NonceResponse(env.nonce, nonce))
        gasPrices == rpcCall(env.gas)
        callData == buildTransferCallData(to, parseEther(value))
        userOp == BuildUserOp(Sender, nonceRead.value, isDeployed, callData, gasPrices.value)
        est == rpcCall(env.est)
        final == ApplyEstimate(userOp, est)
    IN  CASE env.account = "no_account" -> Threw(Err(<<"Account not found">>, "db"))
          [] env.account = "no_key" -> Threw(Err(<<"Signing key not found">>, "db"))
          [] env.code = "fail" -> Threw(FetchError)
          [] nonceRead.threw -> nonceRead
          [] gasPrices.threw -> gasPrices
          [] OTHER ->
              Ok([userOp |-> PreparedUserOp(final),
                  credentialId |-> CredentialId,
                  isDeployed |-> isDeployed,
                  \* bookkeeping for the properties: what was read and built
                  info |-> [codeSeen |-> code,
                            nonceRead |-> env.nonce,
                            defaults |-> [callGasLimit |-> userOp.callGasLimit,
                                          verificationGasLimit |-> userOp.verificationGasLimit,
                                          preVerificationGas |-> userOp.preVerificationGas],
                            estimateFailed |-> EstimateFailed(est)]])

-----------------------------------------------------------------------------
(* useSendTransaction.send: the client's conversions *)

\* x ? BigInt(x) : null on a nullable numeric string
BigIntOrNull(str) == IF str = NullNum THEN NullInt ELSE BigInt(str)

\* the UserOperation the client builds from the response, for signing
ClientUserOp(p) ==
    [sender |-> p.sender,
     nonce |-> BigInt(p.nonce),
     factory |-> p.factory,
     factoryData |-> p.factoryData,
     callData |-> p.callData,
     callGasLimit |-> BigInt(p.callGasLimit),
     verificationGasLimit |-> BigInt(p.verificationGasLimit),
     preVerificationGas |-> BigInt(p.preVerificationGas),
     maxFeePerGas |-> BigInt(p.maxFeePerGas),
     maxPriorityFeePerGas |-> BigInt(p.maxPriorityFeePerGas),
     paymaster |-> p.paymaster,
     paymasterVerificationGasLimit |-> BigIntOrNull(p.paymasterVerificationGasLimit),
     paymasterPostOpGasLimit |-> BigIntOrNull(p.paymasterPostOpGasLimit),
     paymasterData |-> p.paymasterData,
     signature |-> EmptyBytes]

\* the input of trpc.submitUserOp.mutate: the prepared strings plus the signature
SubmitInput(to, value, p, sig) ==
    [sender |-> Sender, to |-> to, value |-> value,
     nonce |-> p.nonce, factory |-> p.factory, factoryData |-> p.factoryData,
     callData |-> p.callData, callGasLimit |-> p.callGasLimit,
     verificationGasLimit |-> p.verificationGasLimit,
     preVerificationGas |-> p.preVerificationGas,
     maxFeePerGas |-> p.maxFeePerGas,
     maxPriorityFeePerGas |-> p.maxPriorityFeePerGas,
     paymaster |-> p.paymaster,
     paymasterVerificationGasLimit |-> p.paymasterVerificationGasLimit,
     paymasterPostOpGasLimit |-> p.paymasterPostOpGasLimit,
     paymasterData |-> p.paymasterData,
     signature |-> sig]

-----------------------------------------------------------------------------
(* router.ts: submitUserOp *)

\* "Convert back to our internal format"
SubmitParse(input) ==
    [sender |-> input.sender,
     nonce |-> BigInt(input.nonce),
     factory |-> input.factory,
     factoryData |-> input.factoryData,
     callData |-> input.callData,
     callGasLimit |-> BigInt(input.callGasLimit),
     verificationGasLimit |-> BigInt(input.verificationGasLimit),
     preVerificationGas |-> BigInt(input.preVerificationGas),
     maxFeePerGas |-> BigInt(input.maxFeePerGas),
     maxPriorityFeePerGas |-> BigInt(input.maxPriorityFeePerGas),
     paymaster |-> input.paymaster,
     paymasterVerificationGasLimit |-> BigIntOrNull(input.paymasterVerificationGasLimit),
     paymasterPostOpGasLimit |-> BigIntOrNull(input.paymasterPostOpGasLimit),
     paymasterData |-> input.paymasterData,
     signature |-> input.signature]

\* "Convert to bundler format": numbers as hex, factory / paymaster keys only if present
\* (ToBundlerFormatWithPlaceholders: every optional key sent, "0x" / 0 standing in)
ToBundlerFormatWithPlaceholders(userOp) ==
    [sender |-> userOp.sender,
     nonce |-> toHex(userOp.nonce),
     callData |-> userOp.callData,
     callGasLimit |-> toHex(userOp.callGasLimit),
     verificationGasLimit |-> toHex(userOp.verificationGasLimit),
     preVerificationGas |-> toHex(userOp.preVerificationGas),
     maxFeePerGas |-> toHex(userOp.maxFeePerGas),
     maxPriorityFeePerGas |-> toHex(userOp.maxPriorityFeePerGas),
     signature |-> userOp.signature,
     factory |-> userOp.factory,
     factoryData |-> OrEmptyBytes(userOp.factoryData),
     paymaster |-> userOp.paymaster,
     paymasterVerificationGasLimit |-> toHex(OrZero(userOp.paymasterVerificationGasLimit)),
     paymasterPostOpGasLimit |-> toHex(OrZero(userOp.paymasterPostOpGasLimit)),
     paymasterData |-> OrEmptyBytes(userOp.paymasterData)]
ToBundlerFormat(userOp) ==
    LET base == [sender |-> userOp.sender,
                 nonce |-> toHex(userOp.nonce),
                 callData |-> userOp.callData,
                 callGasLimit |-> toHex(userOp.callGasLimit),
                 verificationGasLimit |-> toHex(userOp.verificationGasLimit),
                 preVerificationGas |-> toHex(userOp.preVerificationGas),
                 maxFeePerGas |-> toHex(userOp.maxFeePerGas),
                 maxPriorityFeePerGas |-> toHex(userOp.maxPriorityFeePerGas),
                 signature |-> userOp.signature]
        fac == IF userOp.factory # Null
                  THEN [factory |-> userOp.factory,
                        factoryData |-> OrEmptyBytes(userOp.factoryData)]
                  ELSE <<>>
        pm == IF userOp.paymaster # Null
                 THEN [paymaster |-> userOp.paymaster,
                       paymasterVerificationGasLimit |->
                           toHex(OrZero(userOp.paymasterVerificationGasLimit)),
                       paymasterPostOpGasLimit |->
                           toHex(OrZero(userOp.paymasterPostOpGasLimit)),
                       paymasterData |-> OrEmptyBytes(userOp.paymasterData)]
                 ELSE <<>>
    IN  base @@ fac @@ pm

\* sendUserOperation(userOp): the relay's hash, or rpcCall's error
\* (sendUserOperationIgnoringError: a client that takes the relay's error answer for a result)
sendUserOperationIgnoringError(response) ==
    IF response.kind = "fail" THEN Threw(FetchError)
    ELSE Ok(IF response.kind = "result" THEN response.result ELSE 0)
sendUserOperation(response) == rpcCall(response)

-----------------------------------------------------------------------------
(* the relay and the chain, as the client sees them *)

\* the operation the relay reads from a request: hex numbers decoded, absent keys null
RelayDecode(req) ==
    LET has(k) == k \in DOMAIN req
    IN  [sender |-> req.sender,
         nonce |-> BigInt(req.nonce),
         factory |-> IF has("factory") THEN req.factory ELSE Null,
         factoryData |-> IF has("factoryData") THEN req.factoryData ELSE NullBytes,
         callData |-> req.callData,
         callGasLimit |-> BigInt(req.callGasLimit),
         verificationGasLimit |-> BigInt(req.verificationGasLimit),
         preVerificationGas |-> BigInt(req.preVerificationGas),
         maxFeePerGas |-> BigInt(req.maxFeePerGas),
         maxPriorityFeePerGas |-> BigInt(req.maxPriorityFeePerGas),
         paymaster |-> IF has("paymaster") THEN req.paymaster ELSE Null,
         paymasterVerificationGasLimit |->
             IF has("paymasterVerificationGasLimit")
                THEN BigInt(req.paymasterVerificationGasLimit) ELSE NullInt,
         paymasterPostOpGasLimit |->
             IF has("paymasterPostOpGasLimit")
                THEN BigInt(req.paymasterPostOpGasLimit) ELSE NullInt,
         paymasterData |-> IF has("paymasterData") THEN req.paymasterData ELSE NullBytes,
         signature |-> req.signature]

\* the relay takes an operation for the sender's next nonce once: the EntryPoint's
\* sequential counter for key 0 must equal it, and no accepted operation holds it
RelayAccepts(req, nonce, pool) ==
    /\ BigInt(req.nonce) = nonce
    /\ \A o \in pool : o.nonce # BigInt(req.nonce)

\* eth_sendUserOperation answered by the relay for request req of attempt a
RelayAnswer(a, req, nonce, pool) ==
    IF RelayAccepts(req, nonce, pool)
       THEN RpcResult(a)
       ELSE RpcError("AA25 invalid account nonce")

-----------------------------------------------------------------------------
(* validators.ts, passkey.ts, db/index.ts *)

\* the form's recipient and amount when they are valid
Recipient == "0x00000000000000000000000000000000000000aa"
Amount == "0.01"

\* recipients and amounts a caller passes to send()
RecipientInputs == {Recipient, "alice.eth"}
AmountInputs == {Amount, "0"}

validateAddress(address) ==
    IF address = Recipient
       THEN [isValid |-> TRUE, error |-> <<>>]
       ELSE [isValid |-> FALSE, error |-> <<"Address must start with 0x">>]

validateAmount(amount) ==
    IF amount = Amount
       THEN [isValid |-> TRUE, error |-> <<>>]
       ELSE [isValid |-> FALSE, error |-> <<"Amount must be greater than 0">>]

\* how navigator.credentials.get and the DER parse can end
PasskeyOutcomes == {"signed", "cancelled", "unavailable", "no_credential", "bad_signature"}

\* signUserOp(userOp, credentialId, keySlot): the final signature, or what is thrown
\* (signUserOpSwallowingFailure: a signer that returns an empty signature when the passkey fails)
signUserOpSwallowingFailure(userOp, keySlot, outcome) ==
    IF outcome = "signed"
       THEN Ok(FinalSignature(PasskeySignature(Challenge(userOp)), keySlot))
       ELSE Ok(EmptyBytes)
signUserOp(userOp, keySlot, outcome) ==
    CASE outcome = "signed" ->
            Ok(FinalSignature(PasskeySignature(Challenge(userOp)), keySlot))
      [] outcome = "cancelled" ->
            \* DOMException NotAllowedError rejected by the browser
            Threw(Err(<<"The operation either timed out or was not allowed.">>, "cancelled"))
      [] outcome = "unavailable" ->
            \* DOMException NotSupportedError / SecurityError rejected by the browser
            Threw(Err(<<"The operation is not supported.">>, "unavailable"))
      [] outcome = "no_credential" ->
            Threw(Err(<<"Failed to get credential">>, "unavailable"))
      [] OTHER ->
            Threw(Err(<<"Invalid DER signature">>, "format"))

\* INSERT INTO user_ops (user_op_hash, ...): status defaults to 'pending'
createUserOp(rows, userOpHash) ==
    rows \cup {[user_op_hash |-> userOpHash, status |-> "pending", tx_hash |-> NullHash]}

\* UPDATE user_ops SET status = .., tx_hash = ${txHash || null} WHERE user_op_hash = ..
updateUserOpStatus(rows, userOpHash, status, txHash) ==
    { IF r.user_op_hash = userOpHash
         THEN [r EXCEPT !.status = status, !.tx_hash = txHash]
         ELSE r : r \in rows }

-----------------------------------------------------------------------------
(* the send pipeline as a state machine *)

NoOp == [sender |-> Null]
NoInfo == [codeSeen |-> FALSE, nonceRead |-> "none",
           defaults |-> [callGasLimit |-> 0, verificationGasLimit |-> 0, preVerificationGas |-> 0],
           estimateFailed |-> FALSE]
NotEnded == [status |-> "none", message |-> <<>>, txHash |-> NullHash, cause |-> "none", phase |-> "none"]

WaitIdle ==
    /\ wPc = "check"
    /\ wTimeout = DefaultTimeoutMs
    /\ wElapsed = 0
    /\ wResult = Absent
    /\ wPolls = 0
    /\ wSleeps = 0
    /\ wFirst = Absent
    /\ wFirstLat = -1
    /\ wLateStart = FALSE

SendInit ==
    /\ state = [status |-> "idle"]
    /\ pc = [a \in Attempts |-> "idle"]
    /\ prepared = [a \in Attempts |-> NoOp]
    /\ prepInfo = [a \in Attempts |-> NoInfo]
    /\ signedOp = [a \in Attempts |-> NoOp]
    /\ passkey = [a \in Attempts |-> "none"]
    /\ signature = [a \in Attempts |-> EmptyBytes]
    /\ bundlerOp = [a \in Attempts |-> NoOp]
    /\ submitCalls = [a \in Attempts |-> 0]
    /\ hashOf = [a \in Attempts |-> 0]
    /\ ended = [a \in Attempts |-> NotEnded]
    /\ faults = [a \in Attempts |-> {}]
    /\ chainCode = FALSE
    /\ chainNonce = 0
    /\ mempool = {}
    /\ userOps = {}
    /\ deployed = FALSE
    /\ markedBy = {}

\* no pure-function call is under way
NoValue == [fn |-> "none"]
CodecIdle ==
    /\ cPc = "idle"
    /\ cIn = NoValue
    /\ cOut = NoValue

\* results: [] and debounceRef.current: null
NoResults == [fn |-> "none"]
NoTimer == [armed |-> FALSE, query |-> ""]

\* balance: 0n
ZeroBalance == <<"wei", "0">>

\* neither hook is rendered
UiIdle ==
    /\ query = "" /\ results = NoResults /\ isSearching = FALSE /\ debounceRef = NoTimer
    /\ searches = {} /\ issued = <<>> /\ searchMounted = FALSE /\ searchCalls = 0
    /\ bAddress = Null /\ balance = ZeroBalance /\ isLoading = FALSE /\ balanceError = Null
    /\ isMounted = FALSE /\ intervals = {} /\ fetches = {} /\ fetchCount = 0
    /\ addressChanges = 0 /\ unmounted = FALSE

\* the catch block of send(): setState({ status: "error", message }); onError?.(message)
Fail(a, err, phase) ==
    /\ state' = [status |-> "error", message |-> err.message]
    /\ pc' = [pc EXCEPT ![a] = "done"]
    /\ ended' = [ended EXCEPT ![a] =
                    [status |-> "error", message |-> err.message, txHash |-> NullHash,
                     cause |-> err.cause, phase |-> phase]]

\* send(to, amount) up to the prepareUserOp request
Send(a, loggedIn, to, amount) ==
    /\ pc[a] = "idle"
    /\ IF ~loggedIn
          THEN \* setState({ status: "error", message: "Not logged in" }); return
               /\ state' = [status |-> "error", message |-> <<"Not logged in">>]
               /\ pc' = [pc EXCEPT ![a] = "done"]
               /\ ended' = [ended EXCEPT ![a] =
                               [status |-> "error", message |-> <<"Not logged in">>,
                                txHash |-> NullHash, cause |-> "not_logged_in", phase |-> "idle"]]
          ELSE IF ~validateAddress(to).isValid
                  THEN Fail(a, Err(validateAddress(to).error, "validation"), "validating")
          ELSE IF ~validateAmount(amount).isValid
                  THEN Fail(a, Err(validateAmount(amount).error, "validation"), "validating")
          ELSE /\ state' = [status |-> "preparing"]
               /\ pc' = [pc EXCEPT ![a] = "preparing"]
               /\ UNCHANGED ended
    /\ UNCHANGED <<prepared, prepInfo, signedOp, passkey, signature, bundlerOp, submitCalls,
                   hashOf, faults, chainCode, chainNonce, mempool, userOps, deployed, markedBy>>
    /\ UNCHANGED <<waitVars, codecVars, uiVars>>

\* the reads of one prepareUserOp call that failed or came back empty, among those
\* the procedure got to (bookkeeping for the properties)
ReadFaults(env) ==
    IF env.account # "ok" THEN {}
    ELSE IF env.code = "fail" THEN {"code"}
    ELSE IF env.nonce \in {"error", "fail"} THEN {"nonce"}
    ELSE (IF env.nonce = "empty" THEN {"nonce_empty"} ELSE {})
         \cup (IF env.gas.kind # "result" THEN {"gas"}
               ELSE IF EstimateFailed(rpcCall(env.est)) THEN {"estimate"} ELSE {})

\* the prepareUserOp procedure runs and its response reaches send()
PrepareUserOp(a, env) ==
    /\ pc[a] = "preparing"
    /\ faults' = [faults EXCEPT ![a] = @ \cup ReadFaults(env)]
    /\ LET r == prepareUserOp(Recipient, Amount, chainCode, chainNonce, env)
       IN  IF r.threw
              THEN /\ Fail(a, r.error, "preparing")
                   /\ UNCHANGED <<prepared, prepInfo, signedOp>>
              ELSE /\ prepared' = [prepared EXCEPT ![a] = r.value.userOp]
                   /\ prepInfo' = [prepInfo EXCEPT ![a] = r.value.info]
                   /\ signedOp' = [signedOp EXCEPT ![a] = ClientUserOp(r.value.userOp)]
                   /\ state' = [status |-> "signing"]
                   /\ pc' = [pc EXCEPT ![a] = "signing"]
                   /\ UNCHANGED ended
    /\ UNCHANGED <<passkey, signature, bundlerOp, submitCalls, hashOf,
                   chainCode, chainNonce, mempool, userOps, deployed, markedBy>>
    /\ UNCHANGED <<waitVars, codecVars, uiVars>>

\* the passkey prompt ends and signUserOp returns or throws
SignUserOp(a, outcome) ==
    /\ pc[a] = "signing"
    /\ passkey' = [passkey EXCEPT ![a] = outcome]
    /\ LET r == signUserOp(signedOp[a], 0, outcome)
       IN  IF r.threw
              THEN /\ Fail(a, r.error, "signing")
                   /\ UNCHANGED signature
              ELSE /\ signature' = [signature EXCEPT ![a] = r.value]
                   /\ state' = [status |-> "submitting"]
                   /\ pc' = [pc EXCEPT ![a] = "submitting"]
                   /\ UNCHANGED ended
    /\ UNCHANGED <<prepared, prepInfo, signedOp, bundlerOp, submitCalls, hashOf, faults,
                   chainCode, chainNonce, mempool, userOps, deployed, markedBy>>
    /\ UNCHANGED <<waitVars, codecVars, uiVars>>

\* the submitUserOp procedure runs and its response reaches send()
\* net: the relay answers ("deliver"), refuses for another reason ("reject"),
\* or the request fails on the network ("fail")
SubmitUserOp(a, net) ==
    /\ pc[a] = "submitting"
    /\ LET input == SubmitInput(Recipient, Amount, prepared[a], signature[a])
           req == ToBundlerFormat(SubmitParse(input))
           response == CASE net = "fail" -> RpcFail
                         [] net = "reject" -> RpcError("AA24 signature error")
                         [] OTHER -> RelayAnswer(a, req, chainNonce, mempool)
           r == sendUserOperation(response)
       IN  /\ submitCalls' = [submitCalls EXCEPT ![a] = @ + 1]
           /\ faults' = [faults EXCEPT ![a] = IF response.kind = "result" THEN @ ELSE @ \cup {"submit"}]
           /\ bundlerOp' = [bundlerOp EXCEPT ![a] = req]
           /\ mempool' = IF response.kind = "result"
                            THEN mempool \cup {[hash |-> response.result,
                                                nonce |-> BigInt(req.nonce),
                                                factory |-> "factory" \in DOMAIN req,
                                                included |-> FALSE, success |-> FALSE]}
                            ELSE mempool
           /\ IF r.threw
                 THEN /\ Fail(a, r.error, "submitting")
                      /\ UNCHANGED <<hashOf, userOps, deployed, markedBy>>
                 ELSE /\ userOps' = createUserOp(userOps, r.value)
                      /\ deployed' = (deployed \/ input.factory # Null)
                      /\ markedBy' = IF input.factory # Null THEN markedBy \cup {a} ELSE markedBy
                      /\ hashOf' = [hashOf EXCEPT ![a] = r.value]
                      /\ state' = [status |-> "confirming", userOpHash |-> r.value]
                      /\ pc' = [pc EXCEPT ![a] = "confirming"]
                      /\ UNCHANGED ended
    /\ UNCHANGED <<prepared, prepInfo, signedOp, passkey, signature, chainCode, chainNonce>>
    /\ UNCHANGED <<waitVars, codecVars, uiVars>>

\* the relay's bundle with operation h lands on chain; execution succeeds or reverts
RelayInclude(h, success) ==
    /\ \E o \in mempool :
         /\ o.hash = h
         /\ ~o.included
         /\ mempool' = (mempool \ {o}) \cup {[o EXCEPT !.included = TRUE, !.success = success]}
         /\ chainNonce' = chainNonce + 1
         /\ chainCode' = (chainCode \/ o.factory)
    /\ UNCHANGED <<state, pc, prepared, prepInfo, signedOp, passkey, signature, bundlerOp,
                   submitCalls, hashOf, ended, faults, userOps, deployed, markedBy>>
    /\ UNCHANGED <<waitVars, codecVars, uiVars>>

\* what waitForUserOperation(hash) gives the procedure: a receipt once the operation
\* is included, the timeout error, or the error of a failed getUserOperationReceipt
WaitOutcomes == {"receipt", "timeout", "error", "fail"}

waitForUserOperation(h, pool, outcome) ==
    CASE outcome = "receipt" ->
            LET o == CHOOSE o \in pool : o.hash = h /\ o.included
            IN  Ok([kind |-> "receipt", success |-> o.success, transactionHash |-> <<"tx", h>>])
      [] outcome = "timeout" -> Threw(TimeoutError)
      [] outcome = "error" -> Threw(BundlerError("internal error"))
      [] OTHER -> Threw(FetchError)

\* the waitForUserOp procedure runs and its response reaches send()
WaitForUserOp(a, outcome) ==
    /\ pc[a] = "confirming"
    /\ outcome = "receipt" => \E o \in mempool : o.hash = hashOf[a] /\ o.included
    /\ faults' = [faults EXCEPT ![a] = IF outcome \in {"error", "fail"} THEN @ \cup {"receipt"} ELSE @]
    /\ LET w == waitForUserOperation(hashOf[a], mempool, outcome)
       IN  IF w.threw
              THEN \* catch: "Timeout or error - mark as failed", rethrow err.message
                   /\ userOps' = updateUserOpStatus(userOps, hashOf[a], "failed", NullHash)
                   /\ Fail(a, w.error, "confirming")
              ELSE /\ userOps' = updateUserOpStatus(userOps, hashOf[a],
                                    IF w.value.success THEN "confirmed" ELSE "failed",
                                    w.value.transactionHash)
                   \* setState({ status: "success", txHash: receipt.txHash }); onSuccess
                   /\ state' = [status |-> "success", txHash |-> w.value.transactionHash]
                   /\ pc' = [pc EXCEPT ![a] = "done"]
                   /\ ended' = [ended EXCEPT ![a] =
                                   [status |-> "success", message |-> <<>>,
                                    txHash |-> w.value.transactionHash,
                                    cause |-> IF w.value.success THEN "receipt_ok" ELSE "receipt_reverted",
                                    phase |-> "confirming"]]
    /\ UNCHANGED <<prepared, prepInfo, signedOp, passkey, signature, bundlerOp, submitCalls,
                   hashOf, chainCode, chainNonce, mempool, deployed, markedBy>>
    /\ UNCHANGED <<waitVars, codecVars, uiVars>>

\* answers of the environment kept in the concurrent specification: every read
\* succeeds or the nonce read fails; the estimate is complete
ConcurrentEnvs ==
    { env \in PrepareEnvs :
        /\ env.account = "ok"
        /\ env.code = "ok"
        /\ env.nonce \in {"ok", "error"}
        /\ env.gas.kind = "result"
        /\ env.est = RpcResult(GoodEstimate) }

Init == WaitIdle /\ SendInit /\ CodecIdle /\ UiIdle

\* Spec: MaxAttempts concurrent send() calls of one sender, from account creation on
Next ==
    \/ \E a \in Attempts, loggedIn \in BOOLEAN : Send(a, loggedIn, Recipient, Amount)
    \/ \E a \in Attempts, env \in ConcurrentEnvs : PrepareUserOp(a, env)
    \/ \E a \in Attempts, outcome \in {"signed", "cancelled"} : SignUserOp(a, outcome)
    \/ \E a \in Attempts, net \in {"deliver", "reject", "fail"} : SubmitUserOp(a, net)
    \/ \E a \in Attempts, outcome \in WaitOutcomes : WaitForUserOp(a, outcome)
    \/ \E h \in Attempts, success \in BOOLEAN : RelayInclude(h, success)

Spec == Init /\ [][Next]_vars

\* highest EntryPoint nonce an account starts with
MaxNonce == 2

\* SpecOp: one send() call with every answer of the environment, for an account
\* that is new (no code, nonce 0) or already has code and a history of operations
OpInit ==
    /\ WaitIdle
    /\ CodecIdle
    /\ UiIdle
    /\ state = [status |-> "idle"]
    /\ pc = [a \in Attempts |-> "idle"]
    /\ prepared = [a \in Attempts |-> NoOp]
    /\ prepInfo = [a \in Attempts |-> NoInfo]
    /\ signedOp = [a \in Attempts |-> NoOp]
    /\ passkey = [a \in Attempts |-> "none"]
    /\ signature = [a \in Attempts |-> EmptyBytes]
    /\ bundlerOp = [a \in Attempts |-> NoOp]
    /\ submitCalls = [a \in Attempts |-> 0]
    /\ hashOf = [a \in Attempts |-> 0]
    /\ ended = [a \in Attempts |-> NotEnded]
    /\ faults = [a \in Attempts |-> {}]
    /\ chainCode \in BOOLEAN
    /\ chainNonce \in 0..MaxNonce
    /\ ~chainCode => chainNonce = 0
    /\ mempool = {}
    /\ userOps = {}
    /\ deployed = chainCode
    /\ markedBy = {}

OpNext ==
    \/ \E loggedIn \in BOOLEAN, to \in RecipientInputs, amount \in AmountInputs :
          Send(1, loggedIn, to, amount)
    \/ \E env \in PrepareEnvs : PrepareUserOp(1, env)
    \/ \E outcome \in PasskeyOutcomes : SignUserOp(1, outcome)
    \/ \E net \in {"deliver", "reject", "fail"} : SubmitUserOp(1, net)
    \/ \E outcome \in WaitOutcomes : WaitForUserOp(1, outcome)
    \/ \E success \in BOOLEAN : RelayInclude(1, success)

SpecOp == OpInit /\ [][OpNext]_vars

-----------------------------------------------------------------------------
(* Part I: waitForUserOperation, main.tsx (bundler client) *)

\* while (Date.now() - startTime < timeout)
\* (LoopGuardInclusive: the guard with <= in place of <)
LoopGuardInclusive(elapsed, timeout) == elapsed <= timeout
LoopGuard(elapsed, timeout) == elapsed < timeout

\* await new Promise((resolve) => setTimeout(resolve, 2000))
\* (SleepBackoff: a wait that grows with every retry)
SleepBackoff(sleeps) == PollIntervalMs * (sleeps + 1)
SleepMs(sleeps) == PollIntervalMs

WaitStart ==
    /\ wPc = "check"
    /\ wTimeout \in WaitTimeouts
    /\ wElapsed = 0
    /\ wResult = Absent
    /\ wPolls = 0
    /\ wSleeps = 0
    /\ wFirst = Absent
    /\ wFirstLat = -1
    /\ wLateStart = FALSE

\* loop head true: getUserOperationReceipt(userOpHash) is called
PollStart ==
    /\ wPc = "check"
    /\ LoopGuard(wElapsed, wTimeout)
    /\ wPc' = "polling"
    /\ wPolls' = wPolls + 1
    /\ wLateStart' = (wLateStart \/ wElapsed >= wTimeout)
    /\ UNCHANGED <<wTimeout, wElapsed, wResult, wSleeps, wFirst, wFirstLat>>
    /\ UNCHANGED <<sendVars, codecVars, uiVars>>

\* the call returns after lat ms with null or a receipt: if (receipt) return receipt
PollReturn(lat, res) ==
    /\ wPc = "polling"
    /\ wElapsed' = wElapsed + lat
    /\ wFirstLat' = IF wFirstLat = -1 THEN lat ELSE wFirstLat
    /\ wFirst' = IF wFirst = Absent THEN res ELSE wFirst
    /\ IF res # Absent
          THEN wPc' = "returned" /\ wResult' = res
          ELSE wPc' = "sleeping" /\ wResult' = wResult
    /\ UNCHANGED <<wTimeout, wPolls, wSleeps, wLateStart>>
    /\ UNCHANGED <<sendVars, codecVars, uiVars>>

\* the call throws (rpcCall: json.error, or fetch rejects): the error leaves the loop
PollThrow(lat, err) ==
    /\ wPc = "polling"
    /\ wElapsed' = wElapsed + lat
    /\ wFirstLat' = IF wFirstLat = -1 THEN lat ELSE wFirstLat
    /\ wPc' = "error"
    /\ wResult' = err
    /\ UNCHANGED <<wTimeout, wPolls, wSleeps, wFirst, wLateStart>>
    /\ UNCHANGED <<sendVars, codecVars, uiVars>>

\* the interval wait between two polls
Sleep ==
    /\ wPc = "sleeping"
    /\ wElapsed' = wElapsed + SleepMs(wSleeps)
    /\ wSleeps' = wSleeps + 1
    /\ wPc' = "check"
    /\ UNCHANGED <<wTimeout, wResult, wPolls, wFirst, wFirstLat, wLateStart>>
    /\ UNCHANGED <<sendVars, codecVars, uiVars>>

\* loop head false: throw new Error("Timeout waiting for UserOperation receipt")
LoopExit ==
    /\ wPc = "check"
    /\ ~LoopGuard(wElapsed, wTimeout)
    /\ wPc' = "timeout"
    /\ wResult' = TimeoutError
    /\ UNCHANGED <<wTimeout, wElapsed, wPolls, wSleeps, wFirst, wFirstLat, wLateStart>>
    /\ UNCHANGED <<sendVars, codecVars, uiVars>>

WaitNext ==
    \/ PollStart
    \/ \E lat \in Latencies, res \in Receipts \cup {Absent} : PollReturn(lat, res)
    \/ \E lat \in Latencies, err \in {BundlerError("internal error"), FetchError} : PollThrow(lat, err)
    \/ Sleep
    \/ LoopExit

WaitInit == WaitStart /\ SendInit /\ CodecIdle /\ UiIdle

SpecWait == WaitInit /\ [][WaitNext]_vars

\* every started call returns or throws, timers fire, the loop head is evaluated
SpecWaitFair == SpecWait /\ WF_vars(WaitNext)

WaitDone == wPc \in {"returned", "timeout", "error"}

-----------------------------------------------------------------------------
(* Claims about the receipt poll *)

\* C1: waitForUserOperation terminates when every getUserOperationReceipt call
\* comes back; it returns the first non-absent receipt a poll observed and never
\* 'absent'; it ends with the timeout error only when no poll observed a receipt
\* and the elapsed time has reached the timeout; and no poll is started once the
\* elapsed time has reached the timeout.
C1_WaitForReceiptTerminates ==
    /\ [](wPc = "returned" => wResult \in Receipts /\ wResult = wFirst)
    /\ [](wPc = "timeout" =>
            wResult = TimeoutError /\ wFirst = Absent /\ wElapsed >= wTimeout)
    /\ [](wFirst # Absent => wPc = "returned")
    /\ [](~wLateStart)
    /\ <>WaitDone

\* a receipt returned by the third poll, after two absent answers and two waits
C1_Witness == wPc = "returned" /\ wPolls = 3 /\ wSleeps = 2 /\ wResult \in Receipts

\* C2 (as stated): against a relay that never returns a receipt, with timeout
\* 6000 ms and interval 2000 ms, the timeout error is raised after 2 or 3
\* getUserOperationReceipt calls.
C2_PollCountTwoOrThree ==
    (wPc = "timeout" /\ wTimeout = 6000) => wPolls \in {2, 3}

\* C2 (amended): against a relay that never returns a receipt the loop waits
\* exactly the constant 2000 ms once between two consecutive polls (no backoff,
\* no jitter) and raises the timeout error no earlier than the timeout; with
\* timeout 6000 ms it makes at most 3 getUserOperationReceipt calls, and 2 or 3
\* when the first call comes back in less than timeout - interval = 4000 ms (a
\* slower first answer leaves a single poll).
C2_ConstantIntervalPolling ==
    /\ [][wSleeps' # wSleeps =>
            wSleeps' = wSleeps + 1 /\ wElapsed' = wElapsed + PollIntervalMs]_vars
    /\ [][wPolls' # wPolls => wPolls' = wPolls + 1 /\ wSleeps = wPolls]_vars
    /\ [](wPc = "timeout" =>
            /\ wElapsed >= wTimeout
            /\ wSleeps = wPolls
            /\ wPolls >= 1
            /\ (wPolls - 1) * PollIntervalMs < wTimeout)
    /\ [](wPc = "timeout" /\ wTimeout = 6000 =>
            /\ wPolls \in 1..3
            /\ (wFirstLat < 4000 => wPolls \in {2, 3})
            /\ (wFirstLat >= 4000 => wPolls = 1))

\* the 6 s budget ran out after two polls against a relay that never had a receipt
C2_Witness == wPc = "timeout" /\ wTimeout = 6000 /\ wPolls = 2 /\ wFirst = Absent

-----------------------------------------------------------------------------
(* Claims about the send pipeline *)

\* the attempt's operation reached the relay and was taken (send() got its hash)
Accepted(a) == pc[a] = "confirming" \/ (pc[a] = "done" /\ ended[a].phase = "confirming")

\* the user_ops row of attempt a
RowOf(a) == { r \in userOps : r.user_op_hash = hashOf[a] }

\* two final states carry the same discriminant: what a caller branches on
\* (the message of an error state is free text)
SameOutcomeKind(e1, e2) == e1.status = e2.status

\* C3: when waitForUserOperation times out, the caller gets an outcome it can
\* tell apart from relay/network failures and from format failures, and the
\* operation stays unresolved: its record is not marked 'failed'.
C3_TimeoutLeftUnresolved ==
    \A a \in Attempts :
        ended[a].cause = "timeout" =>
            /\ \A r \in RowOf(a) : r.status # "failed"
            /\ \A b \in Attempts :
                   ended[b].cause \in {"relay", "network", "format"} =>
                       ~SameOutcomeKind(ended[a], ended[b])

\* C4: the nonce read, the build and the submission are not atomic, so two
\* concurrent sends of one sender can be prepared with the same nonce; of two
\* such operations the relay takes at most one, and a submitted operation that
\* was not taken ends as an error raised by the submission (the relay's stale
\* nonce rejection, or another refusal or network failure of that call).
C4_AtMostOneAcceptedPerNonce ==
    \A a, b \in Attempts :
        (a # b /\ prepared[a] # NoOp /\ prepared[b] # NoOp
               /\ prepared[a].nonce = prepared[b].nonce) =>
            /\ ~(Accepted(a) /\ Accepted(b))
            /\ (Accepted(a) /\ submitCalls[b] > 0) =>
                   /\ pc[b] = "done"
                   /\ hashOf[b] = 0
                   /\ ended[b].status = "error"
                   /\ ended[b].phase = "submitting"
                   /\ ended[b].cause \in {"relay", "network"}
                   /\ RowOf(b) \subseteq RowOf(a)

\* both attempts were prepared with nonce 0; the relay took the first and
\* refused the second as stale
C4_Witness ==
    /\ prepared[1] # NoOp /\ prepared[2] # NoOp
    /\ prepared[1].nonce = prepared[2].nonce
    /\ Accepted(1)
    /\ ended[2].message = <<"Bundler error: ", "AA25 invalid account nonce">>

\* C5: every network/RPC failure of a chain read or relay call fails the send
\* with an error, no failed or empty read is replaced by a default value, and
\* the gas estimation is the only call whose failure is swallowed.
C5_ReadFailuresSurface ==
    \A a \in Attempts :
        /\ (faults[a] \ {"estimate"}) # {} =>
               /\ pc[a] = "done"
               /\ ended[a].status = "error"
               /\ ended[a].cause \in {"network", "relay", "chain"}
        /\ (faults[a] = {"estimate"} /\ ended[a].status = "error") =>
               ended[a].phase # "preparing"
        /\ prepared[a] # NoOp => prepInfo[a].nonceRead = "ok"

\* the three gas limits of a prepared operation
PreparedLimits(a) ==
    [callGasLimit |-> BigInt(prepared[a].callGasLimit),
     verificationGasLimit |-> BigInt(prepared[a].verificationGasLimit),
     preVerificationGas |-> BigInt(prepared[a].preVerificationGas)]

\* C6: when the gas estimation fails in any way (the call fails, or a field of
\* its answer is missing or cannot be parsed), prepare still succeeds and all
\* three gas limits are the defaults; estimated and default values are never mixed.
C6_EstimateFailureKeepsDefaults ==
    \A a \in Attempts :
        /\ (prepared[a] # NoOp /\ prepInfo[a].estimateFailed) =>
               PreparedLimits(a) = prepInfo[a].defaults
        /\ (prepared[a] # NoOp /\ ~prepInfo[a].estimateFailed) =>
               PreparedLimits(a) = [f \in DOMAIN GoodEstimate |-> BigInt(GoodEstimate[f])]
        /\ (faults[a] = {"estimate"}) => prepared[a] # NoOp

\* C7: prepareUserOp attaches factory and factoryData exactly when the sender has
\* no code at prepare time, and the default gas limits are verificationGasLimit
\* 600000 when the deployment is bundled and 150000 otherwise, callGasLimit
\* 200000 and preVerificationGas 100000.
C7_FactoryIffNoCode ==
    [][\A a \in Attempts :
          (prepared[a] = NoOp /\ prepared'[a] # NoOp) =>
              /\ (prepared'[a].factory # Null) <=> ~chainCode
              /\ (prepared'[a].factoryData # NullBytes) <=> ~chainCode
              /\ prepared'[a].factory # Null =>
                     /\ prepared'[a].factory = FACTORY_ADDRESS
                     /\ prepared'[a].factoryData = Tail(buildInitCode(PublicKeyX, PublicKeyY))
              /\ prepInfo'[a].defaults =
                     [callGasLimit |-> 200000,
                      verificationGasLimit |->
                          IF prepared'[a].factory # Null THEN 600000 ELSE 150000,
                      preVerificationGas |-> 100000]
    ]_vars

\* an operation prepared for an account that has no code yet: the deployment is
\* bundled and, the estimate refused, verificationGasLimit is the 600000 default
C7_Witness ==
    \E a \in Attempts :
        /\ prepared[a] # NoOp
        /\ ~prepInfo[a].codeSeen
        /\ prepared[a].factory = FACTORY_ADDRESS
        /\ prepInfo[a].estimateFailed
        /\ PreparedLimits(a).verificationGasLimit = 600000

\* C8: the submit call is made only after signing succeeded, with the signature
\* made over that operation; when signing fails the send ends in error with no
\* submit call, no user-op record, and the account not marked deployed by it.
C8_SubmitOnlyAfterSigning ==
    \A a \in Attempts :
        /\ submitCalls[a] > 0 =>
               /\ passkey[a] = "signed"
               /\ bundlerOp[a].signature = signature[a]
               /\ SignedHash(signature[a]) = getUserOpHash(signedOp[a])
        /\ passkey[a] \notin {"none", "signed"} =>
               /\ pc[a] = "done"
               /\ ended[a].status = "error"
               /\ ended[a].phase = "signing"
               /\ submitCalls[a] = 0
               /\ bundlerOp[a] = NoOp
               /\ hashOf[a] = 0
               /\ a \notin markedBy
        /\ Cardinality(userOps) <= Cardinality({b \in Attempts : passkey[b] = "signed"})

\* the passkey prompt of a first send was cancelled: nothing was submitted, no
\* record exists and the account is still undeployed
C8_Witness ==
    /\ passkey[1] = "cancelled"
    /\ pc[1] = "done"
    /\ submitCalls[1] = 0
    /\ userOps = {}
    /\ ~deployed

HashBoundFields ==
    {"sender", "nonce", "factory", "factoryData", "callData", "callGasLimit",
     "verificationGasLimit", "preVerificationGas", "maxFeePerGas",
     "maxPriorityFeePerGas", "paymaster", "paymasterVerificationGasLimit",
     "paymasterPostOpGasLimit", "paymasterData"}
HashBound(userOp) == [f \in HashBoundFields |-> userOp[f]]

\* C10: the operation handed to the relay has, field by field, the hash-bound
\* values of the operation that was signed (decimal string -> integer -> hex is
\* value-preserving), so the relay computes the hash the signature was made over.
C10_SubmittedEqualsSigned ==
    \A a \in Attempts :
        submitCalls[a] > 0 =>
            /\ HashBound(RelayDecode(bundlerOp[a])) = HashBound(signedOp[a])
            /\ getUserOpHash(RelayDecode(bundlerOp[a])) = SignedHash(bundlerOp[a].signature)

\* a submitted operation that bundles the deployment, with estimated gas limits
C10_Witness ==
    \E a \in Attempts :
        /\ submitCalls[a] > 0
        /\ "factory" \in DOMAIN bundlerOp[a]
        /\ signedOp[a].callGasLimit = 80000
        /\ RelayDecode(bundlerOp[a]).verificationGasLimit = 300000

-----------------------------------------------------------------------------
(* router.ts: the two relay requests, as functions of the operation *)

\* the dummy signature of the estimate request: "0x" + "00".repeat(65)
DummySignature == <<"00 x 65">>

\* prepareUserOp's estimateUserOp: numbers as hex, factory keys only if present
EstimateRequest(userOp) ==
    LET base == [sender |-> userOp.sender,
                 nonce |-> toHex(userOp.nonce),
                 callData |-> userOp.callData,
                 callGasLimit |-> toHex(userOp.callGasLimit),
                 verificationGasLimit |-> toHex(userOp.verificationGasLimit),
                 preVerificationGas |-> toHex(userOp.preVerificationGas),
                 maxFeePerGas |-> toHex(userOp.maxFeePerGas),
                 maxPriorityFeePerGas |-> toHex(userOp.maxPriorityFeePerGas),
                 signature |-> DummySignature]
        fac == IF userOp.factory # Null
                  THEN [factory |-> userOp.factory,
                        factoryData |-> OrEmptyBytes(userOp.factoryData)]
                  ELSE <<>>
    IN  base @@ fac

\* some bytes of a factoryData / paymasterData field, and a paymaster address
SomeBytes == <<[fn |-> "data"]>>
SomePaymaster == "0x00000000000000000000000000000000000000bb"

\* the operations prepareUserOp builds before it asks for an estimate
EstimateOps ==
    { BuildUserOp(Sender, nonce, isDeployed,
                  buildTransferCallData(Recipient, parseEther(Amount)), fast) :
        nonce \in 0..MaxNonce, isDeployed \in BOOLEAN, fast \in GasPriceQuotes }

\* inputs a caller of submitUserOp can pass: a prepared operation whose nullable
\* fields are null or set, in every combination the input schema admits
SubmitInputs ==
    LET p == PreparedUserOp(BuildUserOp(Sender, 0, TRUE,
                 buildTransferCallData(Recipient, parseEther(Amount)),
                 CHOOSE q \in GasPriceQuotes : TRUE))
    IN  { SubmitInput(Recipient, Amount,
              [p EXCEPT !.factory = f, !.factoryData = fd, !.paymaster = pm,
                        !.paymasterVerificationGasLimit = pv,
                        !.paymasterPostOpGasLimit = pp, !.paymasterData = pd],
              DummySignature) :
            f \in {Null, FACTORY_ADDRESS}, fd \in {NullBytes, EmptyBytes, SomeBytes},
            pm \in {Null, SomePaymaster}, pv \in {NullNum, toString(0), toString(50000)},
            pp \in {NullNum, toString(30000)}, pd \in {NullBytes, SomeBytes} }

FormatInit ==
    /\ WaitIdle /\ SendInit /\ UiIdle
    /\ cPc = "ready"
    /\ cIn \in {[fn |-> "submit", arg |-> i] : i \in SubmitInputs}
               \cup {[fn |-> "estimate", arg |-> o] : o \in EstimateOps}
    /\ cOut = NoValue

\* submitUserOp up to the relay call: parse the input, build bundlerUserOp
FormatSubmit ==
    /\ cPc = "ready" /\ cIn.fn = "submit"
    /\ cOut' = [op |-> SubmitParse(cIn.arg), request |-> ToBundlerFormat(SubmitParse(cIn.arg))]
    /\ cPc' = "done"
    /\ UNCHANGED <<cIn, waitVars, sendVars, uiVars>>

\* prepareUserOp up to the estimate call: build estimateUserOp
FormatEstimate ==
    /\ cPc = "ready" /\ cIn.fn = "estimate"
    /\ cOut' = [op |-> cIn.arg, request |-> EstimateRequest(cIn.arg)]
    /\ cPc' = "done"
    /\ UNCHANGED <<cIn, waitVars, sendVars, uiVars>>

FormatNext == FormatSubmit \/ FormatEstimate

SpecFormat == FormatInit /\ [][FormatNext]_vars

FactoryKeys == {"factory", "factoryData"}
PaymasterKeys == {"paymaster", "paymasterVerificationGasLimit",
                  "paymasterPostOpGasLimit", "paymasterData"}

\* C11: in the relay request built by submit and by the gas estimation, the keys
\* factory and factoryData are present exactly when the operation has a factory
\* and the four paymaster keys exactly when it has a paymaster (all of a group or
\* none), and no key that is sent carries null: a field group the operation does
\* not have is left out, not sent as a placeholder.
C11_OptionalKeysOnlyWhenPresent ==
    cPc = "done" =>
        LET op == cOut.op
            req == cOut.request
            keys == DOMAIN req
        IN  /\ op.factory # Null => FactoryKeys \subseteq keys
            /\ op.factory = Null => FactoryKeys \cap keys = {}
            /\ op.paymaster # Null => PaymasterKeys \subseteq keys
            /\ op.paymaster = Null => PaymasterKeys \cap keys = {}
            /\ "factory" \in keys => req.factory # Null /\ req.factory = op.factory
            /\ "factoryData" \in keys => req.factoryData # NullBytes
            /\ "paymaster" \in keys => req.paymaster # Null /\ req.paymaster = op.paymaster
            /\ "paymasterVerificationGasLimit" \in keys =>
                   ~BigIntThrows(req.paymasterVerificationGasLimit)
            /\ "paymasterPostOpGasLimit" \in keys =>
                   ~BigIntThrows(req.paymasterPostOpGasLimit)
            /\ "paymasterData" \in keys => req.paymasterData # NullBytes

\* a submit request for an operation without factory whose input carried a
\* factoryData, and with a paymaster: no factory key, all four paymaster keys
C11_Witness ==
    /\ cPc = "done" /\ cIn.fn = "submit"
    /\ cIn.arg.factory = Null /\ cIn.arg.factoryData = SomeBytes
    /\ cIn.arg.paymaster = SomePaymaster
    /\ FactoryKeys \cap DOMAIN cOut.request = {}
    /\ PaymasterKeys \subseteq DOMAIN cOut.request

\* C12: every send attempt submits the operation built from its own prepare (its
\* own nonce read), never one built by another attempt, and the nonce of a newly
\* built operation is fresh: it differs from the nonce of every operation of the
\* sender that the relay has already taken.
C12_FreshOperationPerAttempt ==
    [][\A a \in Attempts :
          /\ (submitCalls[a] = 0 /\ submitCalls'[a] > 0) =>
                 HashBound(RelayDecode(bundlerOp'[a])) = HashBound(ClientUserOp(prepared[a]))
          /\ (prepared[a] = NoOp /\ prepared'[a] # NoOp) =>
                 /\ BigInt(prepared'[a].nonce) = chainNonce
                 /\ \A o \in mempool : o.nonce # BigInt(prepared'[a].nonce)
    ]_vars

-----------------------------------------------------------------------------
(* userOp.ts: getUserOpHash on pairs of operations that differ in one field *)

OtherSender == "0x00000000000000000000000000000000000000cc"

\* operations with every combination of null / empty / set optional fields
HashOps ==
    LET u == BuildUserOp(Sender, 0, TRUE,
                 buildTransferCallData(Recipient, parseEther(Amount)),
                 CHOOSE q \in GasPriceQuotes : TRUE)
    IN  { [u EXCEPT !.factory = f, !.factoryData = fd, !.paymaster = pm,
                    !.paymasterVerificationGasLimit = pv,
                    !.paymasterPostOpGasLimit = pp, !.paymasterData = pd] :
            f \in {Null, FACTORY_ADDRESS}, fd \in {NullBytes, EmptyBytes, SomeBytes},
            pm \in {Null, SomePaymaster}, pv \in {NullInt, 0, 50000},
            pp \in {NullInt, 30000}, pd \in {NullBytes, EmptyBytes, SomeBytes} }

\* values a field of a UserOperation can be changed to
FieldValues(f) ==
    CASE f = "sender" -> {Sender, OtherSender}
      [] f = "nonce" -> 0..MaxNonce
      [] f = "factory" -> {Null, FACTORY_ADDRESS, OtherSender}
      [] f = "factoryData" -> {NullBytes, EmptyBytes, SomeBytes}
      [] f = "callData" ->
            {buildTransferCallData(Recipient, parseEther(Amount)),
             buildTransferCallData(OtherSender, parseEther(Amount))}
      [] f = "callGasLimit" -> {200000, 80000, 150000}
      [] f = "verificationGasLimit" -> {150000, 600000, 200000}
      [] f = "preVerificationGas" -> {100000, 50000}
      [] f = "maxFeePerGas" -> {1500000, 1000000}
      [] f = "maxPriorityFeePerGas" -> {1000000, 1500000}
      [] f = "paymaster" -> {Null, SomePaymaster, OtherSender}
      [] f = "paymasterVerificationGasLimit" -> {NullInt, 0, 50000}
      [] f = "paymasterPostOpGasLimit" -> {NullInt, 0, 30000}
      [] f = "paymasterData" -> {NullBytes, EmptyBytes, SomeBytes}
      [] OTHER -> {EmptyBytes, DummySignature}

UserOpFields == HashBoundFields \cup {"signature"}

HashInit ==
    /\ WaitIdle /\ SendInit /\ UiIdle
    /\ cPc = "ready"
    /\ \E a \in HashOps, f \in UserOpFields :
         \E v \in FieldValues(f) \ {a[f]} :
            cIn = [fn |-> "getUserOpHash", a |-> a, b |-> [a EXCEPT ![f] = v], field |-> f]
    /\ cOut = NoValue

\* getUserOpHash is called on both operations, and once more on the first
HashBoth ==
    /\ cPc = "ready" /\ cIn.fn = "getUserOpHash"
    /\ cOut' = [a |-> getUserOpHash(cIn.a), b |-> getUserOpHash(cIn.b),
                again |-> getUserOpHash(cIn.a)]
    /\ cPc' = "done"
    /\ UNCHANGED <<cIn, waitVars, sendVars, uiVars>>

HashNext == HashBoth

SpecHash == HashInit /\ [][HashNext]_vars

\* C13: the operation hash does not depend on the signature: two operations
\* that agree on every field except signature have the same hash.
C13_HashIgnoresSignature ==
    (cPc = "done" /\ cIn.field = "signature") =>
        /\ cIn.a.signature # cIn.b.signature
        /\ HashBound(cIn.a) = HashBound(cIn.b)
        /\ cOut.a = cOut.b

\* two operations, one with the empty and one with a 65-byte signature, same hash
C13_Witness ==
    /\ cPc = "done" /\ cIn.fn = "getUserOpHash" /\ cIn.field = "signature"
    /\ cIn.a.signature = EmptyBytes /\ cIn.b.signature = DummySignature
    /\ cOut.a = cOut.b

ChangeIsBound(a, b, f) ==
    CASE f = "factoryData" ->
            a.factory # Null /\ OrEmptyBytes(a.factoryData) # OrEmptyBytes(b.factoryData)
      [] f \in {"paymasterVerificationGasLimit", "paymasterPostOpGasLimit"} ->
            a.paymaster # Null /\ OrZero(a[f]) # OrZero(b[f])
      [] f = "paymasterData" ->
            a.paymaster # Null /\ OrEmptyBytes(a.paymasterData) # OrEmptyBytes(b.paymasterData)
      [] OTHER -> f # "signature"

-----------------------------------------------------------------------------
(* Claims about signUserOp *)

\* the challenge the browser put into clientDataJSON of a final signature
ChallengeOf(sig) == sig[Len(sig)].values[3].challenge

\* C15: the challenge given to the passkey is exactly 38 bytes, validUntil as a
\* 6-byte big-endian unsigned integer followed by the 32 bytes of the hash of the
\* operation being signed; the final signature starts with the same 6 bytes,
\* followed by the ABI encoding of (keySlot, authenticatorData, clientDataJSON,
\* r, s) in that order.
C15_ChallengeAndSignatureLayout ==
    \A a \in Attempts :
        passkey[a] = "signed" =>
            LET sig == signature[a]
                ch == ChallengeOf(sig)
                passkeySig == PasskeySignature(ch)
            IN  /\ Len(ch) = 38
                /\ \A k \in 1..6 : ch[k] \in 0..255
                /\ DigitsValue(SubSeq(ch, 1, 6), 256) = validUntil
                /\ SubSeq(ch, 7, 38) = hexToBytes(getUserOpHash(signedOp[a]))
                /\ Len(sig) = 7
                /\ SubSeq(sig, 1, 6) = SubSeq(ch, 1, 6)
                /\ sig[7].abi = <<"uint8", "bytes", "string", "uint256", "uint256">>
                /\ sig[7].values = <<0, passkeySig.authenticatorData, passkeySig.clientDataJSON,
                                     passkeySig.r, passkeySig.s>>

\* a signed operation that bundles the deployment
C15_Witness ==
    \E a \in Attempts :
        /\ passkey[a] = "signed"
        /\ signedOp[a].factory = FACTORY_ADDRESS
        /\ Len(signature[a]) = 7
        /\ Len(ChallengeOf(signature[a])) = 38

-----------------------------------------------------------------------------
(* passkey.ts: parseDerSignature on byte sequences *)

\* 256-bit integers are kept as 32 big-endian bytes (a bigint: a sign and 32 bytes)
Zeros(k) == [i \in 1..k |-> 0]
Word(bytes) == Zeros(32 - Len(bytes)) \o bytes
Big(mag) == [neg |-> FALSE, mag |-> mag]

\* a < b on two words
RECURSIVE BytesLess(_, _)
BytesLess(a, b) ==
    IF a = <<>> THEN FALSE
    ELSE IF Head(a) # Head(b) THEN Head(a) < Head(b)
    ELSE BytesLess(Tail(a), Tail(b))

\* a - b on two words with a >= b, byte by byte with borrow
RECURSIVE BytesSubBorrow(_, _, _)
BytesSubBorrow(a, b, borrow) ==
    IF a = <<>> THEN <<>>
    ELSE LET k == Len(a)
             d == a[k] - b[k] - borrow
         IN  Append(BytesSubBorrow(SubSeq(a, 1, k - 1), SubSeq(b, 1, k - 1),
                                   IF d < 0 THEN 1 ELSE 0),
                    IF d < 0 THEN d + 256 ELSE d)
BytesSub(a, b) == BytesSubBorrow(a, b, 0)

\* a / 2n on a word
RECURSIVE BytesHalfCarry(_, _)
BytesHalfCarry(a, carry) ==
    IF a = <<>> THEN <<>>
    ELSE <<(carry * 256 + Head(a)) \div 2>>
             \o BytesHalfCarry(Tail(a), (carry * 256 + Head(a)) % 2)
BytesHalf(a) == BytesHalfCarry(a, 0)

\* x - y on two non-negative bigints
BigSub(x, y) ==
    IF BytesLess(x.mag, y.mag)
       THEN [neg |-> TRUE, mag |-> BytesSub(y.mag, x.mag)]
       ELSE [neg |-> FALSE, mag |-> BytesSub(x.mag, y.mag)]

\* x > y for a bigint x and a non-negative bigint y
BigGreater(x, y) == ~x.neg /\ BytesLess(y.mag, x.mag)

\* n = 0xFFFFFFFF00000000FFFFFFFFFFFFFFFFBCE6FAADA7179E84F3B9CAC2FC632551
P256_N ==
    << 255, 255, 255, 255, 0, 0, 0, 0, 255, 255, 255, 255, 255, 255, 255, 255,
       188, 230, 250, 173, 167, 23, 158, 132, 243, 185, 202, 194, 252, 99, 37, 81 >>

\* n / 2n
P256_HalfN == BytesHalf(P256_N)

\* if (s > n / 2n) { s = n - s }
\* (normalizeLowSQuarter: the same with n / 4n for the threshold)
normalizeLowSQuarter(s) ==
    IF BigGreater(s, Big(BytesHalf(P256_HalfN))) THEN BigSub(Big(P256_N), s) ELSE s
normalizeLowS(s) ==
    IF BigGreater(s, Big(P256_HalfN)) THEN BigSub(Big(P256_N), s) ELSE s

\* der[i]: the byte at 0-based index i, or undefined (-1) past the end
ByteAt(der, i) == IF i >= 0 /\ i < Len(der) THEN der[i + 1] ELSE -1

\* der.slice(from, to): silently shorter when the input ends early
Slice(der, from, to) ==
    SubSeq(der, from + 1, IF to < Len(der) THEN to ELSE Len(der))

\* if (bytes[0] === 0x00) bytes = bytes.slice(1)
\* (StripLeadingZeroNever: the sign byte is kept)
StripLeadingZeroNever(bytes) == bytes
StripLeadingZero(bytes) ==
    IF bytes # <<>> /\ Head(bytes) = 0 THEN Tail(bytes) ELSE bytes

\* new RangeError: Uint8Array.set with a negative offset
RangeError == Err(<<"offset is out of bounds">>, "range")

\* parseDerSignature(der): { r, s }, or what is thrown
parseDerSignature(der) ==
    LET rLen == ByteAt(der, 3)
        \* offset after r; an undefined rLen makes it NaN, and der[NaN] is undefined
        sTagAt == IF rLen = -1 THEN -1 ELSE 4 + rLen
        rBytes == IF rLen = -1 THEN <<>> ELSE Slice(der, 4, 4 + rLen)
        sLen == ByteAt(der, sTagAt + 1)
        sBytes == IF sLen = -1 THEN <<>> ELSE Slice(der, sTagAt + 2, sTagAt + 2 + sLen)
        rStripped == StripLeadingZero(rBytes)
        sStripped == StripLeadingZero(sBytes)
    IN  CASE ByteAt(der, 0) # 48 -> Threw(Err(<<"Invalid DER signature">>, "format"))
          [] ByteAt(der, 2) # 2 -> Threw(Err(<<"Expected integer tag for r">>, "format"))
          [] ByteAt(der, sTagAt) # 2 -> Threw(Err(<<"Expected integer tag for s">>, "format"))
          [] Len(rStripped) > 32 \/ Len(sStripped) > 32 -> Threw(RangeError)
          [] OTHER -> Ok([r |-> Big(Word(rStripped)),
                          s |-> normalizeLowS(Big(Word(sStripped)))])

\* ---- the inputs: what an authenticator can hand back as response.signature ----

\* DER INTEGER of a word: leading zeros dropped, 0x00 put in front of a set high bit
RECURSIVE DropZeros(_)
DropZeros(bytes) ==
    IF Len(bytes) > 1 /\ Head(bytes) = 0 THEN DropZeros(Tail(bytes)) ELSE bytes
DerInteger(word) ==
    LET m == DropZeros(word)
        body == IF Head(m) >= 128 THEN <<0>> \o m ELSE m
    IN  <<2, Len(body)>> \o body

\* 0x30 [total-length] 0x02 [r-length] [r-bytes] 0x02 [s-length] [s-bytes]
DerSignature(r, s) ==
    <<48, Len(DerInteger(r)) + Len(DerInteger(s))>> \o DerInteger(r) \o DerInteger(s)

\* values of r and s: small, high bit set, around n / 2 and n, the largest word
RValues == { Word(<<5>>), Word(<<128>>), <<128>> \o Zeros(31), BytesSub(P256_N, Word(<<1>>)) }
SValues ==
    { Word(<<0>>), Word(<<1>>), Word(<<7>>), Word(<<128>>), Word(<<1, 0>>),
      BytesHalf(P256_HalfN), P256_HalfN, BytesSub(P256_N, P256_HalfN),
      <<128>> \o Zeros(31), BytesSub(P256_N, Word(<<1>>)), P256_N,
      [P256_N EXCEPT ![32] = 82], [i \in 1..32 |-> 255] }

\* well-formed signatures, with the values of their two integer fields
WellFormedDer ==
    { [kind |-> "well_formed", der |-> DerSignature(r, s), r |-> r, s |-> s] :
        r \in RValues, s \in SValues }

\* malformed signatures, by what is wrong with them
MalformedDer ==
    LET bad(kind, der) == [kind |-> kind, der |-> der, r |-> Word(<<5>>), s |-> Word(<<7>>)]
    IN  { bad("empty", <<>>),
          bad("outer_tag", <<49, 6, 2, 1, 5, 2, 1, 7>>),
          bad("outer_tag", <<2, 1, 5>>),
          bad("r_tag", <<48, 6, 3, 1, 5, 2, 1, 7>>),
          bad("r_tag", <<48, 6>>),
          bad("s_tag", <<48, 6, 2, 1, 5, 3, 1, 7>>),
          bad("s_tag", <<48, 6, 2, 1, 5, 48, 1, 7>>),
          bad("r_truncated", <<48, 6, 2, 1>>),
          bad("r_truncated", <<48, 6, 2, 5, 5>>),
          bad("r_truncated", <<48, 6, 2, 32, 5, 2, 1, 7>>),
          bad("s_truncated", <<48, 6, 2, 1, 5, 2, 1>>),
          bad("s_truncated", <<48, 6, 2, 1, 5, 2, 32, 7>>),
          bad("s_truncated", <<48, 6, 2, 1, 5, 2, 2, 7>>),
          bad("overlong", <<48, 39, 2, 34, 1>> \o Zeros(33) \o <<2, 1, 7>>),
          bad("overlong", <<48, 39, 2, 1, 5, 2, 34, 1>> \o Zeros(33)) }

DerInit ==
    /\ WaitIdle /\ SendInit /\ UiIdle
    /\ cPc = "ready"
    /\ cIn \in {[fn |-> "parseDerSignature", arg |-> i] : i \in WellFormedDer \cup MalformedDer}
    /\ cOut = NoValue

\* parseDerSignature(signature) returns or throws
ParseDer ==
    /\ cPc = "ready" /\ cIn.fn = "parseDerSignature"
    /\ cOut' = [first |-> parseDerSignature(cIn.arg.der), again |-> NoValue]
    /\ cPc' = IF parseDerSignature(cIn.arg.der).threw THEN "done" ELSE "parsed"
    /\ UNCHANGED <<cIn, waitVars, sendVars, uiVars>>

\* the low-S step applied once more to the (r, s) that was returned
Renormalize ==
    /\ cPc = "parsed"
    /\ cOut' = [cOut EXCEPT !.again = normalizeLowS(cOut.first.value.s)]
    /\ cPc' = "done"
    /\ UNCHANGED <<cIn, waitVars, sendVars, uiVars>>

DerNext == ParseDer \/ Renormalize

SpecDer == DerInit /\ [][DerNext]_vars

\* C16: every signature the codec returns has r unchanged and s an unsigned
\* 32-byte integer with 0 <= s <= n/2; s is replaced by n - s exactly when
\* s > n/2, for every 32-byte value of s, values at or above n included.
C16_LowSRange ==
    (cPc # "ready" /\ cIn.fn = "parseDerSignature" /\ cIn.arg.kind = "well_formed") =>
        /\ ~cOut.first.threw
        /\ cOut.first.value.r = Big(cIn.arg.r)
        /\ ~cOut.first.value.s.neg
        /\ ~BytesLess(P256_HalfN, cOut.first.value.s.mag)
        /\ cOut.first.value.s =
               IF BytesLess(P256_HalfN, cIn.arg.s)
                  THEN BigSub(Big(P256_N), Big(cIn.arg.s))
                  ELSE Big(cIn.arg.s)

\* C17: low-S normalization is idempotent: applied to an already normalized
\* (r, s) it returns the same s (r is not touched), for every r and 32-byte s.
C17_LowSIdempotent ==
    (cPc = "done" /\ cIn.fn = "parseDerSignature" /\ ~cOut.first.threw) =>
        cOut.again = cOut.first.value.s

\* s = n - 1 was normalized to 1, and normalizing 1 again gave 1
C17_Witness ==
    /\ cPc = "done" /\ cIn.fn = "parseDerSignature"
    /\ cIn.arg.kind = "well_formed"
    /\ cIn.arg.s = BytesSub(P256_N, Word(<<1>>))
    /\ cOut.first.value.s = Big(Word(<<1>>))
    /\ cOut.again = Big(Word(<<1>>))

\* C18: parseDerSignature throws a format error, and returns no value, for the
\* empty input, a first byte that is not 0x30, an r or s field that does not
\* start with 0x02, and an r or s field whose declared length exceeds the bytes
\* present.
C18_MalformedDerRejected ==
    (cPc # "ready" /\ cIn.fn = "parseDerSignature"
        /\ cIn.arg.kind \in {"empty", "outer_tag", "r_tag", "s_tag",
                             "r_truncated", "s_truncated"}) =>
        /\ cOut.first.threw
        /\ cOut.first.error.cause = "format"

\* C19 (as stated): for a well-formed DER signature parseDerSignature returns r
\* and s equal to the big-endian values of the two integer fields (one leading
\* 0x00 stripped, left-padded to 32 bytes); 30 06 02 01 05 02 01 07 gives 5 and 7.
C19_ParsedValuesAsEncoded ==
    (cPc # "ready" /\ cIn.fn = "parseDerSignature" /\ cIn.arg.kind = "well_formed") =>
        /\ ~cOut.first.threw
        /\ cOut.first.value.r = Big(cIn.arg.r)
        /\ cOut.first.value.s = Big(cIn.arg.s)
        /\ cIn.arg.der = <<48, 6, 2, 1, 5, 2, 1, 7>> =>
               cOut.first.value = [r |-> Big(Word(<<5>>)), s |-> Big(Word(<<7>>))]

\* C19 (amended): for a well-formed DER signature parseDerSignature returns r
\* equal to the big-endian value of the first integer field (one leading 0x00
\* stripped, left-padded to 32 bytes) and s equal to the value v of the second
\* field when v <= n/2, and to n - v when v > n/2; 30 06 02 01 05 02 01 07 gives
\* r = 5, s = 7.
C19_ParsedValuesLowS ==
    (cPc # "ready" /\ cIn.fn = "parseDerSignature" /\ cIn.arg.kind = "well_formed") =>
        /\ ~cOut.first.threw
        /\ cOut.first.value.r = Big(cIn.arg.r)
        /\ ~BytesLess(P256_HalfN, cIn.arg.s) => cOut.first.value.s = Big(cIn.arg.s)
        /\ BytesLess(P256_HalfN, cIn.arg.s) =>
               cOut.first.value.s = BigSub(Big(P256_N), Big(cIn.arg.s))
        /\ cIn.arg.der = <<48, 6, 2, 1, 5, 2, 1, 7>> =>
               cOut.first.value = [r |-> Big(Word(<<5>>)), s |-> Big(Word(<<7>>))]

\* r with its high bit set (sign byte in the encoding) and s = 7 were parsed
C19_Witness ==
    /\ cPc = "done" /\ cIn.fn = "parseDerSignature"
    /\ cIn.arg.der = <<48, 38, 2, 33, 0, 128>> \o Zeros(31) \o <<2, 1, 7>>
    /\ cOut.first.value = [r |-> Big(<<128>> \o Zeros(31)), s |-> Big(Word(<<7>>))]

\* ==================================================================
\* P-256 public key formats: raw x || y  <->  DER SubjectPublicKeyInfo
\* ==================================================================

\* a hex string is the sequence of its characters
HexChars == <<"0", "1", "2", "3", "4", "5", "6", "7",
              "8", "9", "a", "b", "c", "d", "e", "f">>

DER_PREFIX ==
    <<"3", "0", "5", "9", "3", "0", "1", "3", "0", "6", "0", "7", "2", "a">> \o
    <<"8", "6", "4", "8", "c", "e", "3", "d", "0", "2", "0", "1", "0", "6">> \o
    <<"0", "8", "2", "a", "8", "6", "4", "8", "c", "e", "3", "d", "0", "3">> \o
    <<"0", "1", "0", "7", "0", "3", "4", "2", "0", "0", "0", "4">>

\* (byteToHexUnpadded: the digits of a byte without the leading zero, as
\*  Number.prototype.toString(16) gives them)
byteToHexUnpadded(b) ==
    IF b < 16 THEN <<HexChars[b + 1]>>
    ELSE <<HexChars[(b \div 16) + 1], HexChars[(b % 16) + 1]>>

\* two lowercase hex digits of one byte
byteToHex(b) == <<HexChars[(b \div 16) + 1], HexChars[(b % 16) + 1]>>

\* bytesToHex(bytes): "0x" followed by two digits per byte
RECURSIVE HexDigitsOf(_)
HexDigitsOf(bytes) ==
    IF bytes = <<>> THEN <<>> ELSE byteToHex(Head(bytes)) \o HexDigitsOf(Tail(bytes))

bytesToHex(bytes) == <<"0", "x">> \o HexDigitsOf(bytes)

\* String.prototype.slice(from) and slice(from, to), zero-based, end exclusive
StrSlice(str, from, to) ==
    LET hi == IF to > Len(str) THEN Len(str) ELSE to
    IN  IF from >= hi THEN <<>> ELSE SubSeq(str, from + 1, hi)

startsWith(str, prefix) ==
    Len(str) >= Len(prefix) /\ SubSeq(str, 1, Len(prefix)) = prefix

\* (rawKeyToDerUnchecked: rawKeyToDer without the length test of line 131)
rawKeyToDerUnchecked(rawKey) ==
    Ok(<<"0", "x">> \o DER_PREFIX \o StrSlice(bytesToHex(rawKey), 2, Len(bytesToHex(rawKey))))

\* rawKeyToDer(rawKey): the DER key as hex, or what is thrown
rawKeyToDer(rawKey) ==
    IF Len(rawKey) # 64
    THEN Threw(Err(<<"Expected 64 bytes, got ${rawKey.length}">>, "format"))
    ELSE Ok(<<"0", "x">> \o DER_PREFIX \o StrSlice(bytesToHex(rawKey), 2, Len(bytesToHex(rawKey))))

\* (derKeyToXYAnyLength: derKeyToXY without the length test of line 153)
derKeyToXYAnyLength(derKey) ==
    LET prefix == <<"0", "x">> \o DER_PREFIX
        pubKey == StrSlice(derKey, Len(prefix), Len(derKey))
    IN  IF ~startsWith(derKey, prefix)
        THEN Threw(Err(<<"Invalid DER key format">>, "format"))
        ELSE Ok([x |-> <<"0", "x">> \o StrSlice(pubKey, 0, 64),
                 y |-> <<"0", "x">> \o StrSlice(pubKey, 64, Len(pubKey))])

\* derKeyToXY(derKey): [x, y] as hex, or what is thrown
derKeyToXY(derKey) ==
    LET prefix == <<"0", "x">> \o DER_PREFIX
        pubKey == StrSlice(derKey, Len(prefix), Len(derKey))
    IN  IF ~startsWith(derKey, prefix)
        THEN Threw(Err(<<"Invalid DER key format">>, "format"))
        ELSE IF Len(pubKey) # 128
        THEN Threw(Err(<<"Invalid public key length">>, "format"))
        ELSE Ok([x |-> <<"0", "x">> \o StrSlice(pubKey, 0, 64),
                 y |-> <<"0", "x">> \o StrSlice(pubKey, 64, Len(pubKey))])

\* ---- the inputs: raw keys as extractRawPublicKey hands them over ----

KeyBytes == {0, 1, 2, 4, 15, 16, 128, 255}

Fill(n, b) == [i \in 1..n |-> b]

RawKeys ==
    {Fill(32, a) \o Fill(32, b) : a \in KeyBytes, b \in KeyBytes}
    \cup {[i \in 1..64 |-> (i * k + a) % 256] : k \in {1, 7, 37}, a \in {0, 200}}

BadRawKeys == {<<>>, Fill(63, 1), Fill(65, 1)}

KeyInit ==
    /\ WaitIdle /\ SendInit /\ UiIdle
    /\ cPc = "ready"
    /\ cIn \in {[fn |-> "rawKeyToDer", arg |-> k] : k \in RawKeys \cup BadRawKeys}
    /\ cOut = NoValue

\* publicKeyDer = rawKeyToDer(rawKey)
EncodeKey ==
    /\ cPc = "ready" /\ cIn.fn = "rawKeyToDer"
    /\ cOut' = [first |-> rawKeyToDer(cIn.arg), again |-> NoValue]
    /\ cPc' = IF rawKeyToDer(cIn.arg).threw THEN "done" ELSE "encoded"
    /\ UNCHANGED <<cIn, waitVars, sendVars, uiVars>>

\* publicKeyXY = derKeyToXY(publicKeyDer)
DecodeKey ==
    /\ cPc = "encoded"
    /\ cOut' = [cOut EXCEPT !.again = derKeyToXY(cOut.first.value)]
    /\ cPc' = "done"
    /\ UNCHANGED <<cIn, waitVars, sendVars, uiVars>>

KeyNext == EncodeKey \/ DecodeKey

SpecKey == KeyInit /\ [][KeyNext]_vars

\* the value of one hex digit, and of a "0x" string as bytes
HexValue(ch) == (CHOOSE i \in 1..16 : HexChars[i] = ch) - 1

ParseHex(hex) ==
    [i \in 1..((Len(hex) - 2) \div 2) |->
        16 * HexValue(hex[2 * i + 1]) + HexValue(hex[2 * i + 2])]

\* C20: for every 64-byte raw key c, derKeyToXY(rawKeyToDer(c)) does not throw
\* and returns x = the first 32 bytes of c and y = the last 32 bytes of c, each
\* as a "0x" string of exactly 64 hex digits.
C20_KeyRoundTrip ==
    (cPc = "done" /\ cIn.fn = "rawKeyToDer" /\ Len(cIn.arg) = 64) =>
        /\ ~cOut.first.threw
        /\ cOut.again # NoValue
        /\ ~cOut.again.threw
        /\ Len(cOut.again.value.x) = 66 /\ Len(cOut.again.value.y) = 66
        /\ ParseHex(cOut.again.value.x) = SubSeq(cIn.arg, 1, 32)
        /\ ParseHex(cOut.again.value.y) = SubSeq(cIn.arg, 33, 64)

C20_Witness ==
    /\ cPc = "done" /\ cIn.fn = "rawKeyToDer"
    /\ cIn.arg = Fill(32, 1) \o Fill(32, 2)
    /\ Len(cOut.first.value) = 2 + 2 * 91
    /\ cOut.first.value = <<"0", "x">> \o DER_PREFIX \o HexDigitsOf(Fill(32, 1)) \o HexDigitsOf(Fill(32, 2))
    /\ ParseHex(cOut.again.value.x) = Fill(32, 1)
    /\ ParseHex(cOut.again.value.y) = Fill(32, 2)

\* ------------------------------------------------------------------
\* rawKeyToDer on its own
\* ------------------------------------------------------------------

\* C21: rawKeyToDer throws a format error for every input that is not 64 bytes
\* long; for a 64-byte input it returns 91 bytes: the 26 header bytes of
\* DER_PREFIX, the byte 0x04, then the 64 input bytes unchanged.
C21_RawKeyToDerLayout ==
    (cPc \in {"encoded", "done"} /\ cIn.fn = "rawKeyToDer") =>
        IF Len(cIn.arg) # 64
        THEN cOut.first.threw /\ cOut.first.error.cause = "format"
        ELSE /\ ~cOut.first.threw
             /\ Len(ParseHex(cOut.first.value)) = 91
             /\ SubSeq(ParseHex(cOut.first.value), 1, 26)
                    = SubSeq(ParseHex(<<"0", "x">> \o DER_PREFIX), 1, 26)
             /\ ParseHex(cOut.first.value)[27] = 4
             /\ SubSeq(ParseHex(cOut.first.value), 28, 91) = cIn.arg

C21_Witness ==
    /\ cPc = "done" /\ cIn.fn = "rawKeyToDer"
    /\ cIn.arg = Fill(63, 1)
    /\ cOut.first.threw

\* ------------------------------------------------------------------
\* derKeyToXY on its own: any hex string a caller can pass
\* ------------------------------------------------------------------

GoodKey == Fill(32, 1) \o Fill(32, 2)

GoodBlob == rawKeyToDer(GoodKey).value

\* the blob with the character at zero-based position i replaced
WithChar(str, i, ch) == [k \in 1..Len(str) |-> IF k = i + 1 THEN ch ELSE str[k]]

UpperChars == <<"0", "1", "2", "3", "4", "5", "6", "7",
                "8", "9", "A", "B", "C", "D", "E", "F">>

\* String.prototype.toUpperCase on the hex digits (the "0x" is kept)
toUpperDigits(hex) ==
    [k \in 1..Len(hex) |-> IF k <= 2 THEN hex[k]
                           ELSE UpperChars[CHOOSE i \in 1..16 : HexChars[i] = hex[k]]]

Blobs ==
    {rawKeyToDer(k).value : k \in RawKeys}
    \cup {WithChar(GoodBlob, i, IF GoodBlob[i + 1] = "0" THEN "1" ELSE "0") : i \in 2..55}
    \cup {SubSeq(GoodBlob, 1, Len(GoodBlob) - 1), SubSeq(GoodBlob, 1, Len(GoodBlob) - 2),
          GoodBlob \o <<"0", "0">>, <<"0", "x">>, <<>>,
          SubSeq(GoodBlob, 3, Len(GoodBlob)), toUpperDigits(GoodBlob)}

BlobInit ==
    /\ WaitIdle /\ SendInit /\ UiIdle
    /\ cPc = "ready"
    /\ cIn \in {[fn |-> "derKeyToXY", arg |-> b] : b \in Blobs}
    /\ cOut = NoValue

\* derKeyToXY(derKey) returns or throws
DecodeBlob ==
    /\ cPc = "ready" /\ cIn.fn = "derKeyToXY"
    /\ cOut' = [first |-> derKeyToXY(cIn.arg), again |-> NoValue]
    /\ cPc' = "done"
    /\ UNCHANGED <<cIn, waitVars, sendVars, uiVars>>

BlobNext == DecodeBlob

SpecBlob == BlobInit /\ [][BlobNext]_vars

\* the bytes a hex string stands for, in either case of the digits
HexValueAnyCase(ch) ==
    (CHOOSE i \in 1..16 : HexChars[i] = ch \/ UpperChars[i] = ch) - 1

BlobBytes(hex) ==
    IF Len(hex) < 2 \/ SubSeq(hex, 1, 2) # <<"0", "x">> THEN <<>>
    ELSE [i \in 1..((Len(hex) - 2) \div 2) |->
            16 * HexValueAnyCase(hex[2 * i + 1]) + HexValueAnyCase(hex[2 * i + 2])]

HeaderBytes == SubSeq(ParseHex(<<"0", "x">> \o DER_PREFIX), 1, 26)

StartsWithHeader(hex) ==
    Len(BlobBytes(hex)) >= 26 /\ SubSeq(BlobBytes(hex), 1, 26) = HeaderBytes

Is91Bytes(hex) == Len(hex) = 2 + 2 * 91 /\ Len(BlobBytes(hex)) = 91

\* C22 (as stated): derKeyToXY throws a format error exactly when the blob does
\* not start with the 26-byte header or is not 91 bytes long, and otherwise
\* returns the last 64 bytes as two 32-byte halves.
C22_DerKeyRejectsIffMalformed ==
    (cPc = "done" /\ cIn.fn = "derKeyToXY") =>
        /\ cOut.first.threw <=> (~StartsWithHeader(cIn.arg) \/ ~Is91Bytes(cIn.arg))
        /\ ~cOut.first.threw =>
            /\ BlobBytes(cOut.first.value.x) = SubSeq(BlobBytes(cIn.arg), 28, 59)
            /\ BlobBytes(cOut.first.value.y) = SubSeq(BlobBytes(cIn.arg), 60, 91)

\* C22 (amended): derKeyToXY throws a format error exactly when the hex string
\* does not start with "0x" and the 54 lowercase digits of DER_PREFIX (the 26
\* header bytes and the 0x04 tag), or when other than 128 characters follow;
\* otherwise it returns the first and the last 64 of these characters, each
\* behind "0x".
C22_DerKeyRejectsIffNotPrefixed ==
    (cPc = "done" /\ cIn.fn = "derKeyToXY") =>
        LET wellFormed ==
                /\ Len(cIn.arg) = 2 + 54 + 128
                /\ SubSeq(cIn.arg, 1, 2) = <<"0", "x">>
                /\ \A i \in 1..54 : cIn.arg[2 + i] = DER_PREFIX[i]
        IN  /\ cOut.first.threw <=> ~wellFormed
            /\ cOut.first.threw => cOut.first.error.cause = "format"
            /\ ~cOut.first.threw =>
                /\ cOut.first.value.x = <<"0", "x">> \o SubSeq(cIn.arg, 57, 120)
                /\ cOut.first.value.y = <<"0", "x">> \o SubSeq(cIn.arg, 121, 184)

C22_Witness ==
    /\ cPc = "done" /\ cIn.fn = "derKeyToXY"
    /\ cIn.arg = WithChar(GoodBlob, 55, "0")
    /\ StartsWithHeader(cIn.arg) /\ Is91Bytes(cIn.arg)
    /\ cOut.first.threw

\* ==================================================================
\* WebAuthn attestation object -> public key (fallback without getPublicKey)
\* ==================================================================

\* b & 0xe0 and b & 0x1f on a byte; undefined (-1) & mask is 0
MajorType(b) == IF b = -1 THEN 0 ELSE (b \div 32) * 32
LowBits(b) == IF b = -1 THEN 0 ELSE b % 32

\* (hi << 8) | lo, undefined operands count as 0
U16(hi, lo) == (IF hi = -1 THEN 0 ELSE hi) * 256 + (IF lo = -1 THEN 0 ELSE lo)

\* let x: Uint8Array | null
NotFound == [found |-> FALSE, bytes |-> <<>>]
Found(bytes) == [found |-> TRUE, bytes |-> bytes]

\* the for loop of parseCoseKey with `left` entries still to read at `offset`
RECURSIVE CoseEntries(_, _, _, _, _)
CoseEntries(coseKey, left, offset, x, y) ==
    IF left = 0
    THEN IF ~x.found \/ ~y.found
         THEN Threw(Err(<<"Could not find x and y coordinates in COSE key">>, "format"))
         ELSE Ok([x |-> x.bytes, y |-> y.bytes])
    ELSE LET keyByte == ByteAt(coseKey, offset)
             key == IF MajorType(keyByte) = 32 THEN -1 - LowBits(keyByte)
                    ELSE LowBits(keyByte)
             valueByte == ByteAt(coseKey, offset + 1)
             \* byte string with the length in the low bits
             len == LowBits(valueByte)
             value == Slice(coseKey, offset + 2, offset + 2 + len)
             \* byte string with a 1-byte length prefix
             len1 == IF ByteAt(coseKey, offset + 2) = -1 THEN 0
                     ELSE ByteAt(coseKey, offset + 2)
             value1 == Slice(coseKey, offset + 3, offset + 3 + len1)
         IN  IF MajorType(keyByte) \notin {0, 32}
             THEN Threw(Err(<<"Unexpected CBOR key type">>, "format"))
             ELSE IF MajorType(valueByte) = 64
             THEN CoseEntries(coseKey, left - 1, offset + 2 + len,
                              IF key = -2 THEN Found(value) ELSE x,
                              IF key = -3 THEN Found(value) ELSE y)
             ELSE IF MajorType(valueByte) \in {0, 32}
             THEN CoseEntries(coseKey, left - 1, offset + 2, x, y)
             ELSE IF valueByte = 88
             THEN CoseEntries(coseKey, left - 1, offset + 3 + len1,
                              IF key = -2 THEN Found(value1) ELSE x,
                              IF key = -3 THEN Found(value1) ELSE y)
             ELSE Threw(Err(<<"Unexpected CBOR value type">>, "format"))

\* parseCoseKey(coseKey): { x, y }, or what is thrown
parseCoseKey(coseKey) ==
    IF MajorType(ByteAt(coseKey, 0)) # 160
    THEN Threw(Err(<<"Expected CBOR map">>, "format"))
    ELSE CoseEntries(coseKey, LowBits(ByteAt(coseKey, 0)), 1, NotFound, NotFound)

\* "authData" as TextDecoder reads it
AuthDataKey == <<97, 117, 116, 104, 68, 97, 116, 97>>

\* the loop that looks for authData among the three top-level entries: the
\* offset of the authenticator data, or -1. An offset that became NaN (-1 here)
\* reads undefined everywhere and finds nothing.
RECURSIVE FindAuthData(_, _, _)
FindAuthData(bytes, i, offset) ==
    IF i = 3 \/ offset = -1 THEN -1
    ELSE LET keyLen == LowBits(ByteAt(bytes, offset))
             key == Slice(bytes, offset + 1, offset + 1 + keyLen)
             after == offset + 1 + keyLen
             valueByte == ByteAt(bytes, after)
             next == after + 1
         IN  IF key = AuthDataKey
             THEN IF valueByte = 88 THEN after + 2
                  ELSE IF valueByte = 89 THEN after + 3
                  ELSE FindAuthData(bytes, i + 1, after)
             ELSE IF MajorType(valueByte) = 96
             THEN FindAuthData(bytes, i + 1, next + LowBits(valueByte))
             ELSE IF valueByte = 120 \/ valueByte = 88
             \* offset += bytes[offset++]: the old offset plus the length byte
             THEN FindAuthData(bytes, i + 1,
                               IF ByteAt(bytes, next) = -1 THEN -1
                               ELSE next + ByteAt(bytes, next))
             ELSE IF MajorType(valueByte) = 160
             THEN FindAuthData(bytes, i + 1, next)
             ELSE IF valueByte = 89
             THEN FindAuthData(bytes, i + 1,
                               next + 2 + U16(ByteAt(bytes, next), ByteAt(bytes, next + 1)))
             ELSE FindAuthData(bytes, i + 1, next)

\* rawKey = new Uint8Array(64); rawKey.set(x, 0); rawKey.set(y, 32)
RawKeyOf(x, y) ==
    [i \in 1..64 |-> IF i > 32 /\ i - 32 <= Len(y) THEN y[i - 32]
                     ELSE IF i <= Len(x) THEN x[i]
                     ELSE 0]

\* parseAttestationObject(attestationObject): { publicKeyDer, publicKeyXY },
\* or what is thrown
parseAttestationObject(bytes) ==
    LET authDataOffset == FindAuthData(bytes, 0, 1)
        attestedCredDataOffset == authDataOffset + 37
        credIdLen == U16(ByteAt(bytes, attestedCredDataOffset + 16),
                         ByteAt(bytes, attestedCredDataOffset + 17))
        coseKeyOffset == attestedCredDataOffset + 18 + credIdLen
        coseKey == Slice(bytes, coseKeyOffset, Len(bytes))
        parsed == parseCoseKey(coseKey)
        publicKeyDer == rawKeyToDer(RawKeyOf(parsed.value.x, parsed.value.y))
    IN  IF authDataOffset = -1
        THEN Threw(Err(<<"Could not find authData in attestation">>, "format"))
        ELSE IF parsed.threw THEN parsed
        ELSE IF Len(parsed.value.x) > 64 \/ Len(parsed.value.y) > 32 THEN Threw(RangeError)
        ELSE IF publicKeyDer.threw THEN publicKeyDer
        ELSE IF derKeyToXY(publicKeyDer.value).threw THEN derKeyToXY(publicKeyDer.value)
        ELSE Ok([publicKeyDer |-> publicKeyDer.value,
                 publicKeyXY |-> derKeyToXY(publicKeyDer.value).value])

\* ---- the inputs: attestation objects as an authenticator encodes them ----

\* CBOR byte string and text string headers followed by the content
CborBytes(b) ==
    IF Len(b) <= 23 THEN <<64 + Len(b)>> \o b
    ELSE IF Len(b) <= 255 THEN <<88, Len(b)>> \o b
    ELSE <<89, Len(b) \div 256, Len(b) % 256>> \o b

CborText(ascii) == <<96 + Len(ascii)>> \o ascii

\* { 1: 2, 3: -7, -1: 1, -2: x, -3: y }
CoseKeyBytes(x, y) ==
    <<165, 1, 2, 3, 38, 32, 1, 33>> \o CborBytes(x) \o <<34>> \o CborBytes(y)

\* rpIdHash, flags, signCount, aaguid, credIdLen, credId, credentialPublicKey
AuthData(credId, coseKey) ==
    Fill(32, 170) \o <<69>> \o <<0, 0, 0, 0>> \o Fill(16, 0)
        \o <<Len(credId) \div 256, Len(credId) % 256>> \o credId \o coseKey

\* { "fmt": fmt, "attStmt": attStmt, "authData": authData } behind `header`
AttestationObject(header, fmt, attStmt, authData) ==
    <<header>> \o CborText(<<102, 109, 116>>) \o CborText(fmt)
        \o CborText(<<97, 116, 116, 83, 116, 109, 116>>) \o attStmt
        \o CborText(AuthDataKey) \o CborBytes(authData)

FmtNone == <<110, 111, 110, 101>>

Ramp(from) == [i \in 1..32 |-> (from + i) % 256]

\* x coordinates; the last two carry bytes at positions 23 and 24 that read as
\* a map key and a value header
XValues ==
    {Fill(32, 1), Fill(32, 255), Ramp(0), Ramp(100),
     Fill(23, 1) \o <<34, 66>> \o Fill(7, 1),
     Fill(23, 1) \o <<1, 2>> \o Fill(7, 1)}

YValues == {Fill(32, 2), Ramp(50), Fill(32, 128)}

CredentialIds == {Fill(16, 7), Fill(32, 7), Fill(150, 7)}

WellFormedAttestations ==
    {[kind |-> "well_formed", x |-> x, y |-> y,
      bytes |-> AttestationObject(163, FmtNone, <<160>>, AuthData(c, CoseKeyBytes(x, y)))] :
        x \in XValues, y \in YValues, c \in CredentialIds}

MalformedAttestations ==
    LET x == Fill(32, 1)
        y == Fill(32, 2)
        c == Fill(16, 7)
        att(kind, header, attStmt, coseKey) ==
            [kind |-> kind, x |-> x, y |-> y,
             bytes |-> AttestationObject(header, FmtNone, attStmt, AuthData(c, coseKey))]
    IN  {att("top_level_array", 131, <<160>>, CoseKeyBytes(Fill(5, 1), Fill(5, 2))),
         att("top_level_array", 131, <<160>>, CoseKeyBytes(x, y)),
         att("attStmt_not_a_map", 163, <<246>>, CoseKeyBytes(Fill(5, 1), Fill(5, 2))),
         att("key_map_is_array", 163, <<160>>, <<133>> \o Tail(CoseKeyBytes(x, y))),
         att("key_map_text_key", 163, <<160>>, <<162, 97, 120>> \o CborBytes(x) \o <<34>> \o CborBytes(y)),
         att("key_map_array_value", 163, <<160>>, <<162, 33, 128, 34>> \o CborBytes(y)),
         att("no_y", 163, <<160>>, <<161, 33>> \o CborBytes(x)),
         att("no_y", 163, <<160>>, <<161, 33>> \o CborBytes(Fill(5, 1))),
         att("no_x", 163, <<160>>, <<161, 34>> \o CborBytes(Fill(5, 2))),
         att("short_coordinates", 163, <<160>>, CoseKeyBytes(Fill(5, 1), Fill(5, 2))),
         att("short_coordinates", 163, <<160>>, CoseKeyBytes(Fill(23, 1), Fill(23, 2))),
         att("truncated", 163, <<160>>, SubSeq(CoseKeyBytes(x, y), 1, 20)),
         [kind |-> "empty", x |-> x, y |-> y, bytes |-> <<>>],
         [kind |-> "no_authData", x |-> x, y |-> y,
          bytes |-> <<162>> \o CborText(<<102, 109, 116>>) \o CborText(FmtNone)
                        \o CborText(<<97, 116, 116, 83, 116, 109, 116>>) \o <<160>>]}

AttestationInit ==
    /\ WaitIdle /\ SendInit /\ UiIdle
    /\ cPc = "ready"
    /\ cIn \in {[fn |-> "parseAttestationObject", arg |-> a] :
                    a \in WellFormedAttestations \cup MalformedAttestations}
    /\ cOut = NoValue

\* parsed = parseAttestationObject(response.attestationObject)
ParseAttestation ==
    /\ cPc = "ready" /\ cIn.fn = "parseAttestationObject"
    /\ cOut' = [first |-> parseAttestationObject(cIn.arg.bytes), again |-> NoValue]
    /\ cPc' = "done"
    /\ UNCHANGED <<cIn, waitVars, sendVars, uiVars>>

AttestationNext == ParseAttestation

SpecAttestation == AttestationInit /\ [][AttestationNext]_vars

\* C23: parseAttestationObject either throws a format error, or returns the x
\* and y of a well-formed attestation: 32 bytes each, the values of the key-map
\* entries -2 and -3. Malformed input (unexpected top-level or key-map tag,
\* missing or short coordinate) never yields a value.
C23_CoordinatesFromKeyMapOrError ==
    (cPc = "done" /\ cIn.fn = "parseAttestationObject") =>
        \/ cOut.first.threw /\ cOut.first.error.cause = "format"
        \/ /\ ~cOut.first.threw
           /\ cIn.arg.kind = "well_formed"
           /\ ParseHex(cOut.first.value.publicKeyXY.x) = cIn.arg.x
           /\ ParseHex(cOut.first.value.publicKeyXY.y) = cIn.arg.y

\* the same, for everything but the inputs the parser reads out of step
C23_HoldsOutsideByteStringHeaders ==
    (cPc = "done" /\ cIn.fn = "parseAttestationObject"
        /\ cIn.arg.kind \notin {"well_formed", "top_level_array", "attStmt_not_a_map", "short_coordinates"}) =>
        cOut.first.threw /\ cOut.first.error.cause = "format"

\* no well-formed attestation is ever parsed to its own coordinates
C23_NoKeyIsRead ==
    (cPc = "done" /\ cIn.fn = "parseAttestationObject" /\ cIn.arg.kind = "well_formed"
        /\ ~cOut.first.threw) =>
        ParseHex(cOut.first.value.publicKeyXY.x) # cIn.arg.x

\* ==================================================================
\* Counterfactual address and deployment data
\* ==================================================================

\* getSmartAccountAddress(publicKeyX, publicKeyY): the getAddress call made on
\* the factory when the account is created
getSmartAccountAddress(publicKeyX, publicKeyY) ==
    [address |-> FACTORY_ADDRESS,
     call |-> [fn |-> "getAddress", homeChain |-> ChainId, homeCoin |-> zeroAddress,
               swapper |-> zeroAddress, bridger |-> zeroAddress, keySlot |-> 0,
               key |-> <<publicKeyX, publicKeyY>>, salt |-> 0]]

FactoryParamNames == {"homeChain", "homeCoin", "swapper", "bridger", "keySlot", "key", "salt"}

FactoryParams(call) == [f \in FactoryParamNames |-> call[f]]

\* C24: whenever a prepared, signed or submitted operation carries deployment
\* data, it calls createAccount on the factory that getSmartAccountAddress
\* asked, with the same seven parameters: chain id 84532, three zero addresses,
\* key slot 0, [x, y] and salt 0.
C24_DeploymentMatchesPrediction ==
    \A a \in Attempts :
        \A op \in {prepared[a], signedOp[a], bundlerOp[a]} :
            (op # NoOp /\ "factory" \in DOMAIN op /\ op.factory # Null) =>
                /\ op.factory = getSmartAccountAddress(PublicKeyX, PublicKeyY).address
                /\ Len(op.factoryData) = 1
                /\ op.factoryData[1].fn = "createAccount"
                /\ FactoryParams(op.factoryData[1])
                       = FactoryParams(getSmartAccountAddress(PublicKeyX, PublicKeyY).call)
                /\ FactoryParams(op.factoryData[1])
                       = [homeChain |-> 84532, homeCoin |-> zeroAddress, swapper |-> zeroAddress,
                          bridger |-> zeroAddress, keySlot |-> 0,
                          key |-> <<PublicKeyX, PublicKeyY>>, salt |-> 0]

C24_Witness ==
    /\ bundlerOp[1] # NoOp
    /\ "factory" \in DOMAIN bundlerOp[1]
    /\ bundlerOp[1].factory = FACTORY_ADDRESS
    /\ FactoryParams(bundlerOp[1].factoryData[1])
           = FactoryParams(getSmartAccountAddress(PublicKeyX, PublicKeyY).call)

\* ==================================================================
\* The send hook under send() and reset()
\* ==================================================================

\* reset(): setState({ status: "idle" }), whatever a send() is doing
Reset ==
    /\ state' = [status |-> "idle"]
    /\ UNCHANGED <<pc, prepared, prepInfo, signedOp, passkey, signature, bundlerOp, submitCalls,
                   hashOf, ended, faults, chainCode, chainNonce, mempool, userOps, deployed,
                   markedBy>>
    /\ UNCHANGED <<waitVars, codecVars, uiVars>>

HookNext == Next \/ Reset

\* SpecHook: the send() calls of Spec together with reset()
SpecHook == Init /\ [][HookNext]_vars

ActivePhases == {"validating", "preparing", "signing", "submitting", "confirming"}

\* the documented order of the phases
Follows(s, t) ==
    \/ <<s, t>> \in {<<"idle", "validating">>, <<"validating", "preparing">>,
                     <<"preparing", "signing">>, <<"signing", "submitting">>,
                     <<"submitting", "confirming">>, <<"confirming", "success">>}
    \/ s \in ActivePhases /\ t = "error"

\* one step of the hook: send() writes "validating" and then "preparing" or
\* "error" before it first awaits, so these two writes are one step
StatusStep(s, t) ==
    \/ Follows(s, t)
    \/ Follows(s, "validating") /\ Follows("validating", t)
    \/ s = "idle" /\ t = "error"
    \/ t = "idle"

\* C25: every change of the send status is a step of the documented machine
\* (idle, validating, preparing, signing, submitting, confirming, success in
\* this order; error from an active phase or from a send that is not logged in;
\* idle only by reset), and "confirming" carries the hash that the submit of the
\* same step returned.
C25_StatusFollowsMachine ==
    [][state' # state =>
          /\ StatusStep(state.status, state'.status)
          /\ state'.status = "idle" => Reset
          /\ state'.status = "confirming" =>
                \E a \in Attempts :
                    /\ pc[a] = "submitting" /\ pc'[a] = "confirming"
                    /\ state'.userOpHash = hashOf'[a]
    ]_vars

\* the same steps when a send may also start from success or error
C25_StepsWithRestart ==
    [][state' # state =>
          \/ StatusStep(state.status, state'.status)
          \/ state.status \in {"success", "error"} /\ state'.status \in {"preparing", "error"}
    ]_vars

\* what does hold: each send() call on its own goes through its phases in
\* order, whatever the shared status shows
C25_EachSendInOrder ==
    [][\A a \in Attempts :
          pc'[a] # pc[a] =>
              \/ <<pc[a], pc'[a]>> \in {<<"idle", "preparing">>, <<"preparing", "signing">>,
                                        <<"signing", "submitting">>,
                                        <<"submitting", "confirming">>}
              \/ pc'[a] = "done"
    ]_vars

\* ==================================================================
\* Stored flags and outcomes against the chain
\* ==================================================================

\* an operation with deployment data that was included and executed successfully
DeploymentConfirmed ==
    \E o \in mempool : o.factory /\ o.included /\ o.success

\* C26: the account's stored deployed flag is true only once an operation that
\* carries deployment data has been included on chain with success; not while
\* it is merely submitted or pending, nor after it timed out or failed.
C26_DeployedOnlyAfterConfirmation ==
    deployed => DeploymentConfirmed

\* C27: a send ends in success only with a receipt of the operation it
\* submitted that reports successful execution.
C27_SuccessOnlyOnSuccessfulReceipt ==
    \A a \in Attempts :
        (ended[a] # NotEnded /\ ended[a].status = "success") =>
            \E o \in mempool : o.hash = hashOf[a] /\ o.included /\ o.success

\* the part of C27 that holds: success only with a receipt of that operation
C27_SuccessOnlyWithReceipt ==
    \A a \in Attempts :
        (ended[a] # NotEnded /\ ended[a].status = "success") =>
            \E o \in mempool : o.hash = hashOf[a] /\ o.included

\* ==================================================================
\* user_ops records under repeated waitForUserOp calls
\* ==================================================================

\* the waitForUserOp procedure called once more for a hash that has a record:
\* by a client that retries, reloads, or polls from a second tab
WaitForUserOpAgain(h, outcome) ==
    /\ \E r \in userOps : r.user_op_hash = h
    /\ outcome = "receipt" => \E o \in mempool : o.hash = h /\ o.included
    /\ LET w == waitForUserOperation(h, mempool, outcome)
       IN  userOps' = IF w.threw
                         THEN updateUserOpStatus(userOps, h, "failed", NullHash)
                         ELSE updateUserOpStatus(userOps, h,
                                  IF w.value.success THEN "confirmed" ELSE "failed",
                                  w.value.transactionHash)
    /\ UNCHANGED <<state, pc, prepared, prepInfo, signedOp, passkey, signature, bundlerOp,
                   submitCalls, hashOf, ended, faults, chainCode, chainNonce, mempool,
                   deployed, markedBy>>
    /\ UNCHANGED <<waitVars, codecVars, uiVars>>

RecordsNext ==
    \/ Next
    \/ \E h \in Attempts, outcome \in WaitOutcomes : WaitForUserOpAgain(h, outcome)

\* SpecRecords: the sends of Spec, and waitForUserOp called again for their hashes
SpecRecords == Init /\ [][RecordsNext]_vars

RecordOf(rows, h) == CHOOSE r \in rows : r.user_op_hash = h

\* C28: a user_ops record is created 'pending'; it changes only to 'confirmed',
\* with the tx_hash of a receipt that reports success, or to 'failed'; and a
\* record that is 'confirmed' is never changed again.
C28_ConfirmedIsFinal ==
    [][\A h \in Attempts :
          /\ ((\E r \in userOps' : r.user_op_hash = h) /\ ~(\E r \in userOps : r.user_op_hash = h))
                => RecordOf(userOps', h).status = "pending"
          /\ (\E r \in userOps : r.user_op_hash = h) =>
                /\ \E r \in userOps' : r.user_op_hash = h
                /\ RecordOf(userOps', h) # RecordOf(userOps, h) =>
                      /\ RecordOf(userOps, h).status # "confirmed"
                      /\ RecordOf(userOps', h).status \in {"confirmed", "failed"}
                      /\ RecordOf(userOps', h).status = "confirmed" =>
                            \E o \in mempool : /\ o.hash = h /\ o.included /\ o.success
                                               /\ RecordOf(userOps', h).tx_hash = <<"tx", h>>
    ]_vars

\* the part of C28 that holds with one waitForUserOp call per operation
C28_StatusFlow ==
    [][\A h \in Attempts :
          ((\E r \in userOps : r.user_op_hash = h)
              /\ RecordOf(userOps', h) # RecordOf(userOps, h)) =>
                      /\ RecordOf(userOps, h).status = "pending"
                      /\ RecordOf(userOps', h).status \in {"confirmed", "failed"}
    ]_vars

\* ==================================================================
\* useUserSearch: debounced search
\* ==================================================================

\* search() and clear() calls in one run
MaxSearchCalls == 3

\* what the user types
SearchQueries == {"", "a", "al"}

\* what searchSmartAccounts answers for a query
ResultsOf(q) == [fn |-> "results", of |-> q]

\* the hook is rendered for a logged-in user
SearchInit ==
    /\ WaitIdle /\ SendInit /\ CodecIdle
    /\ query = "" /\ results = NoResults /\ isSearching = FALSE /\ debounceRef = NoTimer
    /\ searches = {} /\ issued = <<>> /\ searchMounted = TRUE /\ searchCalls = 0
    /\ bAddress = Null /\ balance = ZeroBalance /\ isLoading = FALSE /\ balanceError = Null
    /\ isMounted = FALSE /\ intervals = {} /\ fetches = {} /\ fetchCount = 0
    /\ addressChanges = 0 /\ unmounted = FALSE

\* search(newQuery)
Search(newQuery) ==
    /\ searchMounted /\ searchCalls < MaxSearchCalls
    /\ searchCalls' = searchCalls + 1
    /\ query' = newQuery
    /\ IF newQuery = ""
          THEN /\ results' = NoResults
               /\ isSearching' = FALSE
               /\ debounceRef' = NoTimer
          ELSE /\ isSearching' = TRUE
               /\ debounceRef' = [armed |-> TRUE, query |-> newQuery]
               /\ UNCHANGED results
    /\ UNCHANGED <<searches, issued, searchMounted>>
    /\ UNCHANGED <<waitVars, sendVars, codecVars, balanceVars>>

\* DEBOUNCE_MS after the last search(): performSearch(newQuery) up to its request
TimerFires ==
    /\ debounceRef.armed
    /\ debounceRef' = NoTimer
    /\ IF debounceRef.query = ""
          THEN /\ results' = NoResults
               /\ isSearching' = FALSE
               /\ UNCHANGED <<searches, issued>>
          ELSE /\ isSearching' = TRUE
               /\ searches' = searches \cup {[id |-> Len(issued) + 1, query |-> debounceRef.query]}
               /\ issued' = Append(issued, debounceRef.query)
               /\ UNCHANGED results
    /\ UNCHANGED <<query, searchMounted, searchCalls>>
    /\ UNCHANGED <<waitVars, sendVars, codecVars, balanceVars>>

\* the response of one request reaches performSearch: the results or an error
SearchResponds(req, ok) ==
    /\ req \in searches
    /\ searches' = searches \ {req}
    /\ IF searchMounted
          THEN /\ results' = IF ok THEN ResultsOf(req.query) ELSE NoResults
               /\ isSearching' = FALSE
          ELSE UNCHANGED <<results, isSearching>>
    /\ UNCHANGED <<query, debounceRef, issued, searchMounted, searchCalls>>
    /\ UNCHANGED <<waitVars, sendVars, codecVars, balanceVars>>

\* clear()
Clear ==
    /\ searchMounted /\ searchCalls < MaxSearchCalls
    /\ searchCalls' = searchCalls + 1
    /\ query' = ""
    /\ results' = NoResults
    /\ isSearching' = FALSE
    /\ debounceRef' = NoTimer
    /\ UNCHANGED <<searches, issued, searchMounted>>
    /\ UNCHANGED <<waitVars, sendVars, codecVars, balanceVars>>

\* the cleanup of the effect, on unmount
SearchUnmount ==
    /\ searchMounted
    /\ searchMounted' = FALSE
    /\ debounceRef' = NoTimer
    /\ UNCHANGED <<query, results, isSearching, searches, issued, searchCalls>>
    /\ UNCHANGED <<waitVars, sendVars, codecVars, balanceVars>>

SearchNext ==
    \/ \E q \in SearchQueries : Search(q)
    \/ TimerFires
    \/ \E req \in searches, ok \in BOOLEAN : SearchResponds(req, ok)
    \/ Clear
    \/ SearchUnmount

SpecSearch == SearchInit /\ [][SearchNext]_vars

\* every request has been answered and no timer is pending
SearchSettled == searches = {} /\ ~debounceRef.armed

\* C29: once all requests have settled, the results shown are those of the most
\* recent non-empty query (or none, when its request failed), and no results
\* are shown after clear() or an empty query.
C29_ResultsOfLatestQuery ==
    (SearchSettled /\ searchMounted) =>
        IF query = "" THEN results = NoResults
        ELSE results \in {ResultsOf(query), NoResults}

\* the debounce part of C29, which holds: a request is sent only by the timer of
\* the latest search() call, for the query of that call
C29_OnlyLatestQueryIsSent ==
    [][issued' # issued =>
          /\ debounceRef.armed
          /\ issued' = Append(issued, query)
          /\ query # ""
    ]_vars

\* ==================================================================
\* useBalance: fetch and poll
\* ==================================================================

\* fetchBalance calls that send a request, and address changes, in one run
MaxFetches == 3
MaxAddressChanges == 2

AccountA == "0x00000000000000000000000000000000000000a1"
AccountB == "0x00000000000000000000000000000000000000b2"

\* the address prop: an account, or null when nobody is logged in
AddressProps == {Null, AccountA, AccountB}

\* what getBalance answers for an address
BalanceAt(addr) == IF addr = AccountA THEN "1.5" ELSE "0.25"

\* the useEffect body for address addr, run on the state left by the cleanup:
\* what it sets, as a record
EffectFor(addr, count) ==
    IF addr = Null
    THEN [balanceZero |-> TRUE, started |-> {}, timers |-> {}]
    ELSE [balanceZero |-> FALSE,
          started |-> IF count < MaxFetches THEN {[id |-> count + 1, address |-> addr]} ELSE {},
          timers |-> {[address |-> addr]}]

\* the first render with some address, and its effect
BalanceInit ==
    /\ WaitIdle /\ SendInit /\ CodecIdle
    /\ query = "" /\ results = NoResults /\ isSearching = FALSE /\ debounceRef = NoTimer
    /\ searches = {} /\ issued = <<>> /\ searchMounted = FALSE /\ searchCalls = 0
    /\ bAddress \in AddressProps
    /\ balance = ZeroBalance
    /\ isLoading = (bAddress # Null)
    /\ balanceError = Null
    /\ isMounted = TRUE
    /\ intervals = EffectFor(bAddress, 0).timers
    /\ fetches = EffectFor(bAddress, 0).started
    /\ fetchCount = Cardinality(EffectFor(bAddress, 0).started)
    /\ addressChanges = 0
    /\ unmounted = FALSE

\* a re-render with another address: the cleanup of the previous effect (there
\* is one only if the previous address was not null), then the effect again
SetAddress(addr) ==
    /\ ~unmounted /\ addr # bAddress /\ addressChanges < MaxAddressChanges
    /\ addr # Null => fetchCount < MaxFetches
    /\ addressChanges' = addressChanges + 1
    /\ bAddress' = addr
    /\ isMounted' = TRUE
    /\ intervals' = (IF bAddress # Null THEN {} ELSE intervals) \cup EffectFor(addr, fetchCount).timers
    /\ balance' = IF addr = Null THEN ZeroBalance ELSE balance
    /\ fetches' = fetches \cup EffectFor(addr, fetchCount).started
    /\ fetchCount' = fetchCount + Cardinality(EffectFor(addr, fetchCount).started)
    /\ isLoading' = IF addr # Null THEN TRUE ELSE isLoading
    /\ balanceError' = IF addr # Null THEN Null ELSE balanceError
    /\ UNCHANGED unmounted
    /\ UNCHANGED <<waitVars, sendVars, codecVars, searchVars>>

\* fetchBalance() up to its request, for the address of its closure
fetchBalance(addr) ==
    /\ addr # Null
    /\ fetchCount < MaxFetches
    /\ isLoading' = TRUE
    /\ balanceError' = Null
    /\ fetches' = fetches \cup {[id |-> fetchCount + 1, address |-> addr]}
    /\ fetchCount' = fetchCount + 1
    /\ UNCHANGED <<bAddress, balance, isMounted, intervals, addressChanges, unmounted>>
    /\ UNCHANGED <<waitVars, sendVars, codecVars, searchVars>>

\* setInterval(fetchBalance, pollInterval) fires
IntervalTick == \E t \in intervals : fetchBalance(t.address)

\* refresh(), from the current render
Refresh == ~unmounted /\ fetchBalance(bAddress)

\* the response of one getBalance request reaches fetchBalance
FetchResponds(f, ok) ==
    /\ f \in fetches
    /\ fetches' = fetches \ {f}
    \* React drops the state updates of a component that is gone
    /\ IF isMounted /\ ~unmounted
          THEN /\ balance' = IF ok THEN parseEther(BalanceAt(f.address)) ELSE balance
               /\ balanceError' = IF ok THEN balanceError ELSE "Failed to fetch balance"
               /\ isLoading' = FALSE
          ELSE UNCHANGED <<balance, balanceError, isLoading>>
    /\ UNCHANGED <<bAddress, isMounted, intervals, fetchCount, addressChanges, unmounted>>
    /\ UNCHANGED <<waitVars, sendVars, codecVars, searchVars>>

\* the component unmounts: the cleanup runs if the last effect returned one
BalanceUnmount ==
    /\ ~unmounted
    /\ unmounted' = TRUE
    /\ isMounted' = IF bAddress # Null THEN FALSE ELSE isMounted
    /\ intervals' = IF bAddress # Null THEN {} ELSE intervals
    /\ UNCHANGED <<bAddress, balance, isLoading, balanceError, fetches, fetchCount, addressChanges>>
    /\ UNCHANGED <<waitVars, sendVars, codecVars, searchVars>>

BalanceNext ==
    \/ \E addr \in AddressProps : SetAddress(addr)
    \/ IntervalTick
    \/ Refresh
    \/ \E f \in fetches, ok \in BOOLEAN : FetchResponds(f, ok)
    \/ BalanceUnmount

SpecBalance == BalanceInit /\ [][BalanceNext]_vars

\* C30: the response of a fetch that was started for another address than the
\* current one, or that arrives after unmount, changes nothing in the hook's
\* state; the balance is 0 while the address is null; at most one polling
\* interval is active.
C30_NoUpdateFromStaleFetch ==
    [][/\ \A f \in fetches \ fetches' :
              (f.address # bAddress \/ unmounted) => UNCHANGED <<balance, isLoading, balanceError>>
       /\ bAddress' = Null => balance' = ZeroBalance
       /\ Cardinality(intervals') <= 1
    ]_vars

\* the parts of C30 that hold: one interval at most, for the current address,
\* none after unmount; no update after the unmount of a logged-in render
C30_OneIntervalForCurrentAddress ==
    /\ Cardinality(intervals) <= 1
    /\ \A t \in intervals : t.address = bAddress /\ ~unmounted
    /\ (unmounted /\ bAddress # Null) => ~isMounted

====
